---------------------------- MODULE Spec2Model ----------------------------
(***************************************************************************)
(* Violet Crown standings application (src/src/App.jsx, second listing,    *)
(* lines 460-1312): the guided matchday engine, the events ledger and the  *)
(* season reducer, as a state machine.                                     *)
(*                                                                         *)
(* JavaScript values are modelled as follows.                              *)
(*   - a player name is a string; NameCodes gives its UTF-16 code units,   *)
(*     which is what hashStr and localeCompare read;                       *)
(*   - the value undefined, used as a name or as a property key, is the    *)
(*     string "undefined" (the key JavaScript coerces it to);              *)
(*   - an object used as a map is a function whose domain is its key set;  *)
(*     a missing key reads as undefined (Lookup);                          *)
(*   - null is the record Null;                                            *)
(*   - an array is a sequence.                                             *)
(*                                                                         *)
(* The text fields and check boxes of the forms (roster, seeding method,   *)
(* the guided check box, the manual placement fields, the score inputs,    *)
(* the answers to confirm dialogs) are read by one handler only and can be *)
(* edited freely before it runs: they are the inputs of that handler's     *)
(* action. The size selector is read at several moments of a session and   *)
(* is a variable.                                                          *)
(***************************************************************************)
EXTENDS Integers, Sequences, FiniteSets, TLC

VARIABLES
    events,          \* App: the ledger (useState(loadEvents()))
    season,          \* App: derived aggregates (useState({}) + useEffect)
    storedEvents,    \* localStorage[EVENTS_KEY]
    storedSeason,    \* localStorage[STORAGE_KEY]
    now,             \* the clock Date.now() reads
    view,            \* App: 'standings' | 'add' | 'history' | 'data'
    size,            \* AddEventForm: the size selector
    lettersPool,     \* AddEventForm: pool letters, or null
    lettersBracket,  \* AddEventForm: bracket letters, or null
    schedule,        \* AddEventForm: pool entries, then bracket entries
    matchIdx,        \* AddEventForm: index of the current match, -1 when idle
    results,         \* AddEventForm: idx -> record
    games,           \* AddEventForm: records in submission order
    fnIn,            \* argument of the pure function applied in SpecPool, SpecPlace, ...
    fnOut            \* its result

vars == <<events, season, storedEvents, storedSeason, now, view, size,
          lettersPool, lettersBracket, schedule, matchIdx, results, games,
          fnIn, fnOut>>

appVars == <<events, season, storedEvents, storedSeason, now>>
sessionVars == <<lettersPool, lettersBracket, schedule, matchIdx, results, games>>
fnVars == <<fnIn, fnOut>>

-----------------------------------------------------------------------------
(* Bounds of the model *)

\* The ledger holds at most MaxEvents events, and at most MaxEvents events
\* are appended in a run (the clock ticks once per append).
MaxEvents == 1

\* At most MaxUnusual submissions of a session carry a score other than the
\* usual 11-7.
MaxUnusual == 1

\* SpecPool applies computePoolStandings to the pool phases of rosters of at
\* most MaxPoolRoster players.
MaxPoolRoster == 5

\* SpecReduce applies recomputeFromLedger to ledgers of at most MaxLedger
\* events.
MaxLedger == 3

\* SpecRank applies rankPlayers to MaxRows rows.
MaxRows == 3

\* SpecLedger runs the appending handlers on a ledger of at most MaxHistory
\* events.
MaxHistory == 2

\* SpecHash applies shuffleDeterministic to lists of at most MaxTyped names.
MaxTyped == 3

-----------------------------------------------------------------------------
(* JavaScript values *)

Undefined == "undefined"
Null == [null |-> TRUE]
EmptyObject == [k \in {} |-> Undefined]

Lookup(obj, key) == IF key \in DOMAIN obj THEN obj[key] ELSE Undefined

\* The player names of the model, with their UTF-16 code units.
NameCodes ==
    ("Al"  :> <<65, 108>>) @@
    ("Bo"  :> <<66, 111>>) @@
    ("Abe" :> <<65, 98, 101>>) @@
    ("Cy"  :> <<67, 121>>) @@
    ("Di"  :> <<68, 105>>) @@
    ("Ed"  :> <<69, 100>>) @@
    ("Flo" :> <<70, 108, 111>>) @@
    ("Gus" :> <<71, 117, 115>>) @@
    ("Aa"  :> <<65, 97>>) @@
    ("BB"  :> <<66, 66>>) @@
    ("undefined" :> <<117, 110, 100, 101, 102, 105, 110, 101, 100>>)

Names == DOMAIN NameCodes \ {Undefined}

\* The roster field, as typed: the first n names of this list.
TypedNames == <<"Bo", "Al", "Abe", "Cy", "Di", "Ed", "Flo", "Gus">>

Sizes == {4, 5, 6, 7, 8}

\* names = roster.split(',').map(trim).filter(Boolean), for the rosters of the model
Rosters == { SubSeq(TypedNames, 1, n) : n \in Sizes }

Range(s) == { s[i] : i \in DOMAIN s }

Max(a, b) == IF a > b THEN a ELSE b
Abs(a) == IF a < 0 THEN -a ELSE a

\* [...rows].sort(cmp): Array.prototype.sort is stable, so the result is the
\* order of the indices under "cmp < 0, or cmp = 0 and earlier in the array".
\* before[i, j] tells whether cmp(s[i], s[j]) < 0.
StableSort(s, before) ==
    LET n == Len(s)
        Less(i, j) == before[i, j] \/ (~before[j, i] /\ i < j)
        rank == [i \in 1..n |-> Cardinality({ j \in 1..n : Less(j, i) })]
    IN  [k \in 1..n |-> s[CHOOSE i \in 1..n : rank[i] = k - 1]]

\* a.localeCompare(b) < 0 for the names of the model: the collation compares
\* letter by letter without regard to case, a proper prefix first.
FoldCase(c) == IF c \in 65..90 THEN c + 32 ELSE c
LocaleBefore(a, b) ==
    LET u == NameCodes[a]
        v == NameCodes[b]
    IN  \E k \in 1..Len(v) :
            /\ \A j \in 1..(k - 1) : j <= Len(u) /\ FoldCase(u[j]) = FoldCase(v[j])
            /\ (k > Len(u) \/ FoldCase(u[k]) < FoldCase(v[k]))

-----------------------------------------------------------------------------
(* Points table and season reducer *)

POINTS_TABLE ==
    (8 :> [label |-> "Slam",       awards |-> (1 :> 1000) @@ (2 :> 600) @@ (3 :> 250) @@ (4 :> 100)]) @@
    (7 :> [label |-> "Signature",  awards |-> (1 :> 700) @@ (2 :> 400) @@ (3 :> 100) @@ (7 :> 50)]) @@
    (6 :> [label |-> "Signature",  awards |-> (1 :> 600) @@ (2 :> 300) @@ (3 :> 100)]) @@
    (5 :> [label |-> "Challenger", awards |-> (1 :> 300) @@ (2 :> 100) @@ (5 :> 50)]) @@
    (4 :> [label |-> "Challenger", awards |-> (1 :> 250) @@ (2 :> 100)])

emptyTotals ==
    [Points |-> 0, Wins |-> 0, Losses |-> 0, PF |-> 0, PA |-> 0,
     SlamWins |-> 0, SignatureWins |-> 0, ChallengerWins |-> 0]

\* calcAvgDiff(a) < calcAvgDiff(b), the quotients compared exactly
AvgDiffLess(a, b) ==
    LET ga == a.Wins + a.Losses
        gb == b.Wins + b.Losses
        na == IF ga = 0 THEN 0 ELSE a.PF - a.PA
        nb == IF gb = 0 THEN 0 ELSE b.PF - b.PA
        da == IF ga = 0 THEN 1 ELSE ga
        db == IF gb = 0 THEN 1 ELSE gb
    IN  na * db < nb * da

\* RankBefore going from PF straight to the name
RankBeforeNoAvgDiff(a, b) ==
    IF b.Points # a.Points THEN b.Points < a.Points
    ELSE IF b.Wins # a.Wins THEN b.Wins < a.Wins
    ELSE IF b.PF # a.PF THEN b.PF < a.PF
    ELSE LocaleBefore(a.Player, b.Player)

\* The comparator of rankPlayers: a sorts before b.
RankBefore(a, b) ==
    IF b.Points # a.Points THEN b.Points < a.Points
    ELSE IF b.Wins # a.Wins THEN b.Wins < a.Wins
    ELSE IF b.PF # a.PF THEN b.PF < a.PF
    ELSE IF AvgDiffLess(a, b) \/ AvgDiffLess(b, a) THEN AvgDiffLess(b, a)
    ELSE LocaleBefore(a.Player, b.Player)

\* rankPlayers(rows): the sorted rows, each with its Rank. The display field
\* AvgDiff (the quotient rounded to two decimals) is left out.
rankPlayers(rows) ==
    LET sorted == StableSort(rows, [i \in DOMAIN rows, j \in DOMAIN rows |->
                                       RankBefore(rows[i], rows[j])])
    IN  [i \in 1..Len(sorted) |-> sorted[i] @@ [Rank |-> i]]

\* next[n] = next[n] || emptyTotals()
Ensure(s, n) == IF n \in DOMAIN s THEN s ELSE s @@ (n :> emptyTotals)

\* AwardPlayer setting the points of the player instead of adding to them
AwardPlayerSetPoints(s, label, place, pts, p) ==
    IF p = Undefined \/ p = "" THEN s
    ELSE LET t == Ensure(s, p)
             r == t[p]
         IN  [t EXCEPT ![p] =
                [r EXCEPT !.Points = pts,
                          !.SlamWins = IF label = "Slam" /\ place = 1 THEN @ + 1 ELSE @,
                          !.SignatureWins = IF label = "Signature" /\ place = 1 THEN @ + 1 ELSE @,
                          !.ChallengerWins = IF label = "Challenger" /\ place = 1 THEN @ + 1 ELSE @]]

\* AwardPlayer counting a title at every awarded rank
AwardPlayerAnyRank(s, label, place, pts, p) ==
    IF p = Undefined \/ p = "" THEN s
    ELSE LET t == Ensure(s, p)
             r == t[p]
         IN  [t EXCEPT ![p] =
                [r EXCEPT !.Points = r.Points + pts,
                          !.SlamWins = IF label = "Slam" THEN @ + 1 ELSE @,
                          !.SignatureWins = IF label = "Signature" THEN @ + 1 ELSE @,
                          !.ChallengerWins = IF label = "Challenger" THEN @ + 1 ELSE @]]

\* one player of one placement: (p || '').trim(), skipped when empty
AwardPlayer(s, label, place, pts, p) ==
    IF p = Undefined \/ p = "" THEN s
    ELSE LET t == Ensure(s, p)
             r == t[p]
         IN  [t EXCEPT ![p] =
                [r EXCEPT !.Points = r.Points + pts,
                          !.SlamWins = IF label = "Slam" /\ place = 1 THEN @ + 1 ELSE @,
                          !.SignatureWins = IF label = "Signature" /\ place = 1 THEN @ + 1 ELSE @,
                          !.ChallengerWins = IF label = "Challenger" /\ place = 1 THEN @ + 1 ELSE @]]

RECURSIVE AwardPlayers(_, _, _, _, _, _)
AwardPlayers(s, label, place, pts, players, i) ==
    IF i > Len(players) THEN s
    ELSE AwardPlayers(AwardPlayer(s, label, place, pts, players[i]), label, place, pts, players, i + 1)

\* Object.entries(placements).forEach: integer keys, ascending
RECURSIVE AwardPlaces(_, _, _, _)
AwardPlaces(s, info, placements, todo) ==
    IF todo = {} THEN s
    ELSE LET place == CHOOSE p \in todo : \A q \in todo : p <= q
             pts == IF place \in DOMAIN info.awards THEN info.awards[place] ELSE 0
             t == IF pts = 0 THEN s
                  ELSE AwardPlayers(s, info.label, place, pts, placements[place], 1)
         IN  AwardPlaces(t, info, placements, todo \ {place})

\* team.forEach(p => { next[p] = next[p] || emptyTotals(); PF += own; PA += other })
RECURSIVE AddScores(_, _, _, _, _)
AddScores(s, team, own, other, i) ==
    IF i > Len(team) THEN s
    ELSE LET t == Ensure(s, team[i])
         IN  AddScores([t EXCEPT ![team[i]].PF = @ + own, ![team[i]].PA = @ + other],
                       team, own, other, i + 1)

RECURSIVE Bump(_, _, _, _)
Bump(s, team, won, i) ==
    IF i > Len(team) THEN s
    ELSE Bump(IF won THEN [s EXCEPT ![team[i]].Wins = @ + 1]
                     ELSE [s EXCEPT ![team[i]].Losses = @ + 1], team, won, i + 1)

\* ApplyGame taking a level game as a win of team 2
ApplyGameLevelWin(s, g) ==
    LET a == AddScores(s, g.team1, g.s1, g.s2, 1)
        b == AddScores(a, g.team2, g.s2, g.s1, 1)
    IN  IF g.s1 > g.s2 THEN Bump(Bump(b, g.team1, TRUE, 1), g.team2, FALSE, 1)
        ELSE Bump(Bump(b, g.team2, TRUE, 1), g.team1, FALSE, 1)

ApplyGame(s, g) ==
    LET a == AddScores(s, g.team1, g.s1, g.s2, 1)
        b == AddScores(a, g.team2, g.s2, g.s1, 1)
    IN  IF g.s1 > g.s2 THEN Bump(Bump(b, g.team1, TRUE, 1), g.team2, FALSE, 1)
        ELSE IF g.s2 > g.s1 THEN Bump(Bump(b, g.team2, TRUE, 1), g.team1, FALSE, 1)
        ELSE b

\* gameStats.forEach: the totals after game i are a value (t) before game
\* i + 1 is read, as in the strict evaluation of the source.
RECURSIVE ApplyGames(_, _, _)
ApplyGames(s, gs, i) ==
    IF i > Len(gs) THEN s
    ELSE CHOOSE r \in { ApplyGames(t, gs, i + 1) : t \in { ApplyGame(s, gs[i]) } } : TRUE

\* applyEventToSeason counting the games of an event of any size
applyEventToSeasonAnySize(s, ev) ==
    IF ev.size \notin DOMAIN POINTS_TABLE THEN ApplyGames(s, ev.gameStats, 1)
    ELSE LET info == POINTS_TABLE[ev.size]
             placed == AwardPlaces(s, info, ev.placements, DOMAIN ev.placements)
         IN  ApplyGames(placed, ev.gameStats, 1)

applyEventToSeason(s, ev) ==
    IF ev.size \notin DOMAIN POINTS_TABLE THEN s
    ELSE LET info == POINTS_TABLE[ev.size]
             placed == AwardPlaces(s, info, ev.placements, DOMAIN ev.placements)
         IN  ApplyGames(placed, ev.gameStats, 1)

\* events.forEach(ev => { season = applyEventToSeason(season, ev) }): the
\* season after event i is a value (t) before event i + 1 is read.
RECURSIVE FoldEvents(_, _, _)
FoldEvents(s, evs, i) ==
    IF i > Len(evs) THEN s
    ELSE CHOOSE r \in { FoldEvents(t, evs, i + 1) : t \in { applyEventToSeason(s, evs[i]) } } : TRUE

\* recomputeFromLedger starting over at every event
recomputeFromLedgerLastOnly(evs) == FoldEvents(EmptyObject, evs, Max(Len(evs), 1))

recomputeFromLedger(evs) == FoldEvents(EmptyObject, evs, 1)

-----------------------------------------------------------------------------
(* Guided matchday engine: pure functions *)

\* h = (h<<5) - h + code; h |= 0: the value 31*h + code reduced to a signed
\* 32-bit integer. It is computed on the two 16-bit halves of h, so that no
\* intermediate value leaves the 32-bit range.
Half == 65536

\* The step of hashStr with the multiplier 33 in place of 31
HashStep33(h, code) ==
    LET lo == h % Half
        hi == (h \div Half) % Half
        l == 33 * lo + code
        hh == (33 * hi + (l \div Half)) % Half
    IN  (IF hh >= Half \div 2 THEN hh - Half ELSE hh) * Half + (l % Half)

\* h = (h << 5) - h + code; h |= 0, on the 32-bit value h: the two 16-bit
\* halves of 31 * h + code, the upper one read as signed.
HashStep(h, code) ==
    LET lo == h % Half
        hi == (h \div Half) % Half
        l == 31 * lo + code
        hh == (31 * hi + (l \div Half)) % Half
    IN  (IF hh >= Half \div 2 THEN hh - Half ELSE hh) * Half + (l % Half)

\* for (let i = 0; i < s.length; i++) { ... }
RECURSIVE HashFrom(_, _, _)
HashFrom(h, codes, i) ==
    IF i > Len(codes) THEN h
    ELSE HashFrom(HashStep(h, codes[i]), codes, i + 1)

hashStr(s) == HashFrom(0, NameCodes[s], 1)

HashBefore(a, b) == hashStr(a) < hashStr(b)

shuffleDeterministic(arr) ==
    StableSort(arr, [i \in DOMAIN arr, j \in DOMAIN arr |-> HashBefore(arr[i], arr[j])])

alpha ==
    <<"A", "B", "C", "D", "E", "F", "G", "H", "I", "J", "K", "L", "M",
      "N", "O", "P", "Q", "R", "S", "T", "U", "V", "W", "X", "Y", "Z">>

\* ordered.forEach((name, i) => letters[alpha[i]] = name)
LettersOf(ordered) ==
    [ch \in { alpha[i] : i \in 1..Len(ordered) } |->
        ordered[CHOOSE i \in 1..Len(ordered) : alpha[i] = ch]]

\* roster.filter(...) keeping the order of the roster
RECURSIVE Filter(_, _)
Filter(s, keep) ==
    IF s = <<>> THEN <<>>
    ELSE (IF Head(s) \in keep THEN <<Head(s)>> ELSE <<>>) \o Filter(Tail(s), keep)

\* assignLetters lettering the known players only
assignLettersKnownOnly(roster, seasonMap, method) ==
    LET known == Filter(roster, DOMAIN seasonMap)
        rows == [i \in 1..Len(known) |-> [Player |-> known[i]] @@ seasonMap[known[i]]]
        ranked == rankPlayers(rows)
    IN  LettersOf([i \in 1..Len(ranked) |-> ranked[i].Player])

\* assignLetters leaving the known players in the order of the roster
assignLettersKnownAsTyped(roster, seasonMap, method) ==
    LET known == Filter(roster, DOMAIN seasonMap)
        unknown == Filter(roster, Range(roster) \ DOMAIN seasonMap)
    IN  LettersOf(known \o shuffleDeterministic(unknown))

\* assignLetters leaving the unknown players in the order of the roster when
\* the method is 'random'
assignLettersRandomAsTyped(roster, seasonMap, method) ==
    LET known == Filter(roster, DOMAIN seasonMap)
        unknown == Filter(roster, Range(roster) \ DOMAIN seasonMap)
        rows == [i \in 1..Len(known) |-> [Player |-> known[i]] @@ seasonMap[known[i]]]
        ranked == rankPlayers(rows)
        sortedKnown == [i \in 1..Len(ranked) |-> ranked[i].Player]
        afterUnknown == IF method = "random" THEN unknown
                        ELSE shuffleDeterministic(unknown)
    IN  LettersOf(sortedKnown \o afterUnknown)

assignLetters(roster, seasonMap, method) ==
    LET known == Filter(roster, DOMAIN seasonMap)
        unknown == Filter(roster, Range(roster) \ DOMAIN seasonMap)
        rows == [i \in 1..Len(known) |-> [Player |-> known[i]] @@ seasonMap[known[i]]]
        ranked == rankPlayers(rows)
        sortedKnown == [i \in 1..Len(ranked) |-> ranked[i].Player]
        afterUnknown == IF method = "random" THEN shuffleDeterministic(unknown)
                        ELSE shuffleDeterministic(unknown)
    IN  LettersOf(sortedKnown \o afterUnknown)

NoFrom == [type |-> "", letters |-> <<>>, label |-> ""]

P(l1, l2, label) ==
    [phase |-> "pool", to |-> 11, winBy |-> 1, pair1 |-> l1, pair2 |-> l2,
     from1 |-> NoFrom, from2 |-> NoFrom, label |-> label]

B(l1, l2, label) ==
    [phase |-> "bracket", to |-> 15, winBy |-> 2, pair1 |-> l1, pair2 |-> l2,
     from1 |-> NoFrom, from2 |-> NoFrom, label |-> label]

BD(from1, from2, label) ==
    [phase |-> "bracket-derivative", to |-> 15, winBy |-> 2, pair1 |-> <<>>, pair2 |-> <<>>,
     from1 |-> from1, from2 |-> from2, label |-> label]

fixedLetters(l) == [type |-> "fixedLetters", letters |-> l, label |-> ""]
winnerOf(label) == [type |-> "winnerOf", letters |-> <<>>, label |-> label]
loserOf(label)  == [type |-> "loserOf",  letters |-> <<>>, label |-> label]

\* buildPoolSchedule with the letter B typed for C in Pool 3 of size 4
buildPoolScheduleTypo(n) ==
    CASE n = 4 -> << P(<<"A","B">>, <<"C","D">>, "Pool 1"),
                     P(<<"A","D">>, <<"B","C">>, "Pool 2"),
                     P(<<"A","B">>, <<"B","D">>, "Pool 3") >>
      [] n = 5 -> << P(<<"A","C">>, <<"D","E">>, "Pool 1"),
                     P(<<"A","E">>, <<"B","D">>, "Pool 2"),
                     P(<<"A","D">>, <<"B","C">>, "Pool 3"),
                     P(<<"A","E">>, <<"B","C">>, "Pool 4"),
                     P(<<"B","E">>, <<"C","D">>, "Pool 5") >>
      [] n = 6 -> << P(<<"A","B">>, <<"C","D">>, "Pool 1"),
                     P(<<"A","F">>, <<"B","E">>, "Pool 2"),
                     P(<<"C","D">>, <<"E","F">>, "Pool 3"),
                     P(<<"A","D">>, <<"B","C">>, "Pool 4"),
                     P(<<"A","E">>, <<"B","F">>, "Pool 5"),
                     P(<<"C","F">>, <<"D","E">>, "Pool 6") >>
      [] n = 7 -> << P(<<"A","G">>, <<"C","E">>, "Pool 1"),
                     P(<<"B","F">>, <<"D","G">>, "Pool 2"),
                     P(<<"A","C">>, <<"E","F">>, "Pool 3"),
                     P(<<"B","D">>, <<"E","G">>, "Pool 4"),
                     P(<<"A","D">>, <<"C","F">>, "Pool 5"),
                     P(<<"B","C">>, <<"A","F">>, "Pool 6"),
                     P(<<"B","G">>, <<"D","E">>, "Pool 7") >>
      [] n = 8 -> << P(<<"A","C">>, <<"E","G">>, "Pool 1"),
                     P(<<"B","D">>, <<"F","H">>, "Pool 2"),
                     P(<<"A","G">>, <<"C","E">>, "Pool 3"),
                     P(<<"B","H">>, <<"D","F">>, "Pool 4"),
                     P(<<"A","E">>, <<"C","G">>, "Pool 5"),
                     P(<<"B","F">>, <<"D","H">>, "Pool 6") >>
      [] OTHER -> << >>

buildPoolSchedule(n) ==
    CASE n = 4 -> << P(<<"A","B">>, <<"C","D">>, "Pool 1"),
                     P(<<"A","D">>, <<"B","C">>, "Pool 2"),
                     P(<<"A","C">>, <<"B","D">>, "Pool 3") >>
      [] n = 5 -> << P(<<"A","C">>, <<"D","E">>, "Pool 1"),
                     P(<<"A","E">>, <<"B","D">>, "Pool 2"),
                     P(<<"A","D">>, <<"B","C">>, "Pool 3"),
                     P(<<"A","E">>, <<"B","C">>, "Pool 4"),
                     P(<<"B","E">>, <<"C","D">>, "Pool 5") >>
      [] n = 6 -> << P(<<"A","B">>, <<"C","D">>, "Pool 1"),
                     P(<<"A","F">>, <<"B","E">>, "Pool 2"),
                     P(<<"C","D">>, <<"E","F">>, "Pool 3"),
                     P(<<"A","D">>, <<"B","C">>, "Pool 4"),
                     P(<<"A","E">>, <<"B","F">>, "Pool 5"),
                     P(<<"C","F">>, <<"D","E">>, "Pool 6") >>
      [] n = 7 -> << P(<<"A","G">>, <<"C","E">>, "Pool 1"),
                     P(<<"B","F">>, <<"D","G">>, "Pool 2"),
                     P(<<"A","C">>, <<"E","F">>, "Pool 3"),
                     P(<<"B","D">>, <<"E","G">>, "Pool 4"),
                     P(<<"A","D">>, <<"C","F">>, "Pool 5"),
                     P(<<"B","C">>, <<"A","F">>, "Pool 6"),
                     P(<<"B","G">>, <<"D","E">>, "Pool 7") >>
      [] n = 8 -> << P(<<"A","C">>, <<"E","G">>, "Pool 1"),
                     P(<<"B","D">>, <<"F","H">>, "Pool 2"),
                     P(<<"A","G">>, <<"C","E">>, "Pool 3"),
                     P(<<"B","H">>, <<"D","F">>, "Pool 4"),
                     P(<<"A","E">>, <<"C","G">>, "Pool 5"),
                     P(<<"B","F">>, <<"D","H">>, "Pool 6") >>
      [] OTHER -> << >>

\* buildBracketSchedule listing each derived entry before the entries it names
buildBracketScheduleDerivedFirst(n) ==
    CASE n = 4 -> << B(<<"A","B">>, <<"C","D">>, "Final") >>
      [] n = 5 -> << B(<<"A","B">>, <<"C","D">>, "Final") >>
      [] n = 6 -> << BD(fixedLetters(<<"A","B">>), winnerOf("SF"), "Final"),
                     B(<<"C","D">>, <<"E","F">>, "SF") >>
      [] n = 7 -> << BD(fixedLetters(<<"A","B">>), winnerOf("SF"), "Final"),
                     B(<<"C","D">>, <<"E","F">>, "SF") >>
      [] n = 8 -> << BD(loserOf("SF1"), loserOf("SF2"), "Bronze"),
                     BD(winnerOf("SF1"), winnerOf("SF2"), "Final"),
                     B(<<"A","B">>, <<"G","H">>, "SF1"),
                     B(<<"C","D">>, <<"E","F">>, "SF2") >>
      [] OTHER -> << >>

buildBracketSchedule(n) ==
    CASE n = 4 -> << B(<<"A","B">>, <<"C","D">>, "Final") >>
      [] n = 5 -> << B(<<"A","B">>, <<"C","D">>, "Final") >>
      [] n = 6 -> << B(<<"C","D">>, <<"E","F">>, "SF"),
                     BD(fixedLetters(<<"A","B">>), winnerOf("SF"), "Final") >>
      [] n = 7 -> << B(<<"C","D">>, <<"E","F">>, "SF"),
                     BD(fixedLetters(<<"A","B">>), winnerOf("SF"), "Final") >>
      [] n = 8 -> << B(<<"A","B">>, <<"G","H">>, "SF1"),
                     B(<<"C","D">>, <<"E","F">>, "SF2"),
                     BD(loserOf("SF1"), loserOf("SF2"), "Bronze"),
                     BD(winnerOf("SF1"), winnerOf("SF2"), "Final") >>
      [] OTHER -> << >>

\* Object.values(obj) of an object with index keys: ascending key order
RECURSIVE ValuesFrom(_, _)
ValuesFrom(obj, todo) ==
    IF todo = {} THEN <<>>
    ELSE LET k == CHOOSE p \in todo : \A q \in todo : p <= q
         IN  <<obj[k]>> \o ValuesFrom(obj, todo \ {k})

ObjectValues(obj) == ValuesFrom(obj, DOMAIN obj)

\* Object.values(allResults).find(r => r.label === label); Null when none
byLabel(allResults, label) ==
    LET hits == { k \in DOMAIN allResults : allResults[k].label = label }
    IN  IF hits = {} THEN Null
        ELSE allResults[CHOOSE k \in hits : \A q \in hits : k <= q]

\* const table = {}: name -> {W, L, PF, PA}
EmptyTable == EmptyObject

\* ensure(n); table[n].PF += own; table[n].PA += other, for each n of the team
RECURSIVE PoolScores(_, _, _, _, _)
PoolScores(t, team, own, other, i) ==
    IF i > Len(team) THEN t
    ELSE LET n == team[i]
             u == IF n \in DOMAIN t THEN t
                  ELSE t @@ (n :> [W |-> 0, L |-> 0, PF |-> 0, PA |-> 0])
         IN  PoolScores([u EXCEPT ![n].PF = @ + own, ![n].PA = @ + other],
                        team, own, other, i + 1)

RECURSIVE PoolBump(_, _, _, _)
PoolBump(t, team, won, i) ==
    IF i > Len(team) THEN t
    ELSE PoolBump(IF won THEN [t EXCEPT ![team[i]].W = @ + 1]
                         ELSE [t EXCEPT ![team[i]].L = @ + 1], team, won, i + 1)

PoolGame(t, g) ==
    LET a == PoolScores(t, g.team1, g.s1, g.s2, 1)
        b == PoolScores(a, g.team2, g.s2, g.s1, 1)
    IN  IF g.s1 > g.s2 THEN PoolBump(PoolBump(b, g.team1, TRUE, 1), g.team2, FALSE, 1)
        ELSE IF g.s2 > g.s1 THEN PoolBump(PoolBump(b, g.team2, TRUE, 1), g.team1, FALSE, 1)
        ELSE b

\* poolGames.forEach: the table after game i is a value (u) before game
\* i + 1 is read.
RECURSIVE PoolTable(_, _, _)
PoolTable(t, gs, i) ==
    IF i > Len(gs) THEN t
    ELSE CHOOSE r \in { PoolTable(u, gs, i + 1) : u \in { PoolGame(t, gs[i]) } } : TRUE

\* Object.keys(table): the names in the order ensure(n) created them, which is
\* the order of their first appearance, team1 before team2 in each game.
RECURSIVE AddKeys(_, _, _)
AddKeys(keys, names, i) ==
    IF i > Len(names) THEN keys
    ELSE AddKeys(IF names[i] \in Range(keys) THEN keys ELSE Append(keys, names[i]),
                 names, i + 1)

RECURSIVE PoolKeys(_, _, _)
PoolKeys(keys, gs, i) ==
    IF i > Len(gs) THEN keys
    ELSE PoolKeys(AddKeys(keys, gs[i].team1 \o gs[i].team2, 1), gs, i + 1)

\* The comparator of computePoolStandings without its comparison of PF
PoolBeforeNoPF(a, b) ==
    IF b.W # a.W THEN b.W < a.W
    ELSE IF (b.PF - b.PA) # (a.PF - a.PA) THEN (b.PF - b.PA) < (a.PF - a.PA)
    ELSE LocaleBefore(a.Player, b.Player)

\* The comparator of computePoolStandings: Wins, then PF-PA, then PF, then name.
PoolBefore(a, b) ==
    IF b.W # a.W THEN b.W < a.W
    ELSE IF (b.PF - b.PA) # (a.PF - a.PA) THEN (b.PF - b.PA) < (a.PF - a.PA)
    ELSE IF b.PF # a.PF THEN b.PF < a.PF
    ELSE LocaleBefore(a.Player, b.Player)

PoolRows(poolGames) ==
    LET t == PoolTable(EmptyTable, poolGames, 1)
        ks == PoolKeys(<<>>, poolGames, 1)
    IN  [i \in 1..Len(ks) |-> [Player |-> ks[i]] @@ t[ks[i]]]

\* ordered names, best first
computePoolStandings(poolGames) ==
    LET rows == PoolRows(poolGames)
        sorted == StableSort(rows, [i \in DOMAIN rows, j \in DOMAIN rows |->
                                       PoolBefore(rows[i], rows[j])])
    IN  [i \in 1..Len(sorted) |-> sorted[i].Player]

\* prunePlacements without the test on the length of the list
prunePlacementsKeepEmpty(p) == p

\* if (Array.isArray(v) && v.length) out[k] = v
prunePlacements(p) == [k \in { q \in DOMAIN p : Len(p[q]) > 0 } |-> p[k]]

Truthy(name) == name # Undefined /\ name # ""

\* computePlacements reading the final only, for every size
computePlacementsFinalOnly(n, allResults, letters) ==
    LET final == byLabel(allResults, "Final")
    IN  IF final # Null THEN (1 :> final.winner) @@ (2 :> final.loser) ELSE EmptyObject

computePlacements(n, allResults, letters) ==
    LET empty == [k \in {1, 2, 3, 4, 5, 7} |-> <<>>]
        final == byLabel(allResults, "Final")
        sf == byLabel(allResults, "SF")
        bronze == byLabel(allResults, "Bronze")
        withFinal == IF final # Null
                     THEN [empty EXCEPT ![1] = final.winner, ![2] = final.loser]
                     ELSE empty
        withSF(p) == IF sf # Null THEN [p EXCEPT ![3] = sf.loser] ELSE p
        withLast(p, ch, rank) ==
            IF letters # Null /\ Truthy(Lookup(letters, ch))
            THEN [p EXCEPT ![rank] = <<Lookup(letters, ch)>>] ELSE p
        withBronze(p) == IF bronze # Null
                         THEN [p EXCEPT ![3] = bronze.winner, ![4] = bronze.loser]
                         ELSE p
    IN  CASE n = 4 -> prunePlacements(withFinal)
          [] n = 5 -> prunePlacements(withLast(withFinal, "E", 5))
          [] n = 6 -> prunePlacements(withSF(withFinal))
          [] n = 7 -> prunePlacements(withLast(withSF(withFinal), "G", 7))
          [] n = 8 -> prunePlacements(withBronze(withFinal))
          [] OTHER -> prunePlacements(empty)

\* letters.map(ch => L[ch])
namesFromLetters(letters, L) == [i \in 1..Len(letters) |-> Lookup(L, letters[i])]

TBD == <<"(TBD)", "(TBD)">>

ResolveSide(from, Lbr, res) ==
    IF from.type = "fixedLetters" THEN namesFromLetters(from.letters, Lbr)
    ELSE LET base == byLabel(res, from.label)
         IN  IF base = Null THEN TBD
             ELSE IF from.type = "winnerOf" THEN base.winner
             ELSE IF from.type = "loserOf" THEN base.loser
             ELSE TBD

\* Reading a letter of a null map throws: the entry cannot be resolved.
ResolveThrows(entry, Lpool, Lbr) ==
    \/ entry.phase = "pool" /\ Lpool = Null
    \/ entry.phase = "bracket" /\ Lbr = Null
    \/ /\ entry.phase = "bracket-derivative"
       /\ Lbr = Null
       /\ "fixedLetters" \in {entry.from1.type, entry.from2.type}

\* resolveTeamsForEntry reading the pool letters for every entry
resolveTeamsForEntryPoolLetters(entry, Lpool, Lbr, res) ==
    IF entry.phase = "pool" \/ entry.phase = "bracket"
    THEN [team1 |-> namesFromLetters(entry.pair1, Lpool),
          team2 |-> namesFromLetters(entry.pair2, Lpool)]
    ELSE [team1 |-> ResolveSide(entry.from1, Lpool, res),
          team2 |-> ResolveSide(entry.from2, Lpool, res)]

resolveTeamsForEntry(entry, Lpool, Lbr, res) ==
    IF entry.phase = "pool"
    THEN [team1 |-> namesFromLetters(entry.pair1, Lpool),
          team2 |-> namesFromLetters(entry.pair2, Lpool)]
    ELSE IF entry.phase = "bracket"
    THEN [team1 |-> namesFromLetters(entry.pair1, Lbr),
          team2 |-> namesFromLetters(entry.pair2, Lbr)]
    ELSE [team1 |-> ResolveSide(entry.from1, Lbr, res),
          team2 |-> ResolveSide(entry.from2, Lbr, res)]

-----------------------------------------------------------------------------
(* Inputs of the handlers *)

\* The scores typed into a match prompt: a team-1 win, a team-2 win, and a
\* low, level score (under both targets and under the win-by margin).
UsualScore == <<11, 7>>
ScoreChoices == { UsualScore, <<7, 11>>, <<9, 9>> }

\* The submissions of the session so far whose score is not the usual one.
Unusual(gs) == Cardinality({ i \in DOMAIN gs : <<gs[i].s1, gs[i].s2>> # UsualScore })

Methods == {"standings", "random"}

\* The four fields of the manual placement form: filled, and one left empty.
ManualFields == { <<"Al", "Bo", "Cy", "Abe">>, <<"Al", "Bo", "Cy", "">> }

\* The roster field when the manual form is submitted.
ManualRosters == { <<>>, SubSeq(TypedNames, 1, 5), SubSeq(TypedNames, 1, 7) }

\* The games of the manual form: none, or the row "Add Game" creates.
ManualGames ==
    { <<>>,
      << [team1 |-> <<"", "">>, team2 |-> <<"", "">>, s1 |-> 11, s2 |-> 8,
          stage |-> "manual", label |-> ""] >> }

\* The size a CSV file declares in its EVENT row; 0 when it has no such row.
CsvSizes == {0, 4, 5, 6, 7, 8}

\* The game rows of a CSV file, as gameStats.
CsvGame(a, b, c, d, s1, s2) ==
    [team1 |-> <<a, b>>, team2 |-> <<c, d>>, s1 |-> s1, s2 |-> s2, stage |-> "", label |-> ""]

CsvGames ==
    { <<>>,
      << CsvGame("Al", "Bo", "Cy", "Di", 11, 7) >>,
      << CsvGame("Al", "Bo", "Cy", "Di", 11, 7), CsvGame("Al", "Cy", "Bo", "Di", 9, 11) >> }

Views == {"standings", "add", "history", "data"}

\* What is rendered after an error thrown while rendering or in an effect:
\* without an error boundary React unmounts the whole tree.
Unmounted == "unmounted"

\* The files given to "Import Events Ledger (JSON)": text that does not
\* parse, text that parses to an object that is not an array, and arrays. An
\* entry of an array has the properties its text has: ImportedEvent is an
\* event as exported earlier, NoPlacements(n) an entry of size n with neither
\* placements nor gameStats.
ImportedEvent ==
    [id |-> -1, size |-> 4,
     placements |-> (1 :> <<"Al", "Bo">>) @@ (2 :> <<"Cy", "Di">>),
     gameStats |-> << CsvGame("Al", "Bo", "Cy", "Di", 11, 7) >>]

NoPlacements(n) == [id |-> -2, size |-> n]

JsonFiles ==
    { [kind |-> "text"],
      [kind |-> "object"],
      [kind |-> "array", value |-> <<>>],
      [kind |-> "array", value |-> << ImportedEvent >>],
      [kind |-> "array", value |-> << NoPlacements(3) >>],
      [kind |-> "array", value |-> << NoPlacements(4) >>] }

-----------------------------------------------------------------------------
(* State machine *)

IdleSession ==
    /\ lettersPool = Null
    /\ lettersBracket = Null
    /\ schedule = <<>>
    /\ matchIdx = -1
    /\ results = EmptyObject
    /\ games = <<>>

\* The application after its first render, with an empty local storage.
AppInit ==
    /\ events = <<>>
    /\ season = recomputeFromLedger(<<>>)
    /\ storedEvents = <<>>
    /\ storedSeason = recomputeFromLedger(<<>>)
    /\ now = 0
    /\ view = "standings"
    /\ size = 4
    /\ IdleSession

Init ==
    /\ AppInit
    /\ fnIn = Null
    /\ fnOut = Null

\* The handlers that start or advance a session or append an Event run while
\* the bounds of the model leave room for one more Event.
Room == Len(events) < MaxEvents /\ now < MaxEvents

\* Object.entries(ev.placements) on an entry that has no placements throws.
HasPlacements(ev) == "placements" \in DOMAIN ev

\* recomputeFromLedger(evs) throws: applyEventToSeason reaches
\* Object.entries(placements) for an entry of a supported size.
RecomputeThrows(evs) ==
    \E i \in DOMAIN evs : evs[i].size \in DOMAIN POINTS_TABLE /\ ~ HasPlacements(evs[i])

\* What local storage holds after setItem(key, JSON.stringify(evs)), as
\* JSON.parse reads it back: JSON.stringify writes an undefined entry of an
\* array as null, every other value of a ledger as it is.
JsonNull == "null"
JsonArray(a) == [j \in 1..Len(a) |-> IF a[j] = Undefined THEN JsonNull ELSE a[j]]
JsonGame(g) ==
    IF "winner" \in DOMAIN g
    THEN [g EXCEPT !.team1 = JsonArray(@), !.team2 = JsonArray(@),
                   !.winner = JsonArray(@), !.loser = JsonArray(@)]
    ELSE [g EXCEPT !.team1 = JsonArray(@), !.team2 = JsonArray(@)]
JsonEvent(ev) ==
    IF ~ HasPlacements(ev) THEN ev
    ELSE [ev EXCEPT !.placements = [k \in DOMAIN @ |-> JsonArray(@[k])],
                    !.gameStats = [i \in 1..Len(@) |-> JsonGame(@[i])]]
JsonSaved(evs) == [i \in 1..Len(evs) |-> JsonEvent(evs[i])]

\* setEvents(next), then the effect on [events]: recompute, persist, save.
\* The season has numbers under string keys, which JSON keeps as they are.
SetEvents(next) ==
    /\ events' = next
    /\ season' = recomputeFromLedger(next)
    /\ storedSeason' = recomputeFromLedger(next)
    /\ storedEvents' = JsonSaved(next)

\* addPlacementEvent / importCSV: append { id: Date.now(), ... }. The clock
\* has millisecond resolution: the next read returns the same value or a
\* later one.
AppendEvent(n, placements, gameStats) ==
    /\ SetEvents(Append(events, [id |-> now, size |-> n, placements |-> placements,
                                 gameStats |-> gameStats]))
    /\ now' \in {now, now + 1}

\* SetView saving the games of the session it discards as an Event
SetViewSavingGames(v) ==
    /\ view \in Views
    /\ v # view
    /\ view' = v
    /\ IF view = "add" /\ games # <<>> /\ Room
       THEN AppendEvent(size, EmptyObject, games)
       ELSE UNCHANGED appVars
    /\ IF v = "add" \/ view = "add"
       THEN /\ size' = 4
            /\ lettersPool' = Null
            /\ lettersBracket' = Null
            /\ schedule' = <<>>
            /\ matchIdx' = -1
            /\ results' = EmptyObject
            /\ games' = <<>>
       ELSE UNCHANGED <<size, sessionVars>>
    /\ UNCHANGED fnVars

\* The tabs. AddEventForm is mounted only in the 'add' view: entering or
\* leaving it starts from the form's initial state.
SetView(v) ==
    /\ view \in Views
    /\ v # view
    /\ view' = IF v = "history" /\ \E i \in DOMAIN events : ~ HasPlacements(events[i])
               THEN Unmounted  \* HistoryView: Object.entries(ev.placements) throws
               ELSE v
    /\ IF v = "add" \/ view = "add"
       THEN /\ size' = 4
            /\ lettersPool' = Null
            /\ lettersBracket' = Null
            /\ schedule' = <<>>
            /\ matchIdx' = -1
            /\ results' = EmptyObject
            /\ games' = <<>>
       ELSE UNCHANGED <<size, sessionVars>>
    /\ UNCHANGED <<appVars, fnVars>>

SetSize(n) ==
    /\ view = "add"
    /\ n # size
    /\ size' = n
    /\ UNCHANGED <<appVars, view, sessionVars, fnVars>>

\* startGuided without the test of the roster length
startGuidedAnyRoster(names, method) ==
    /\ view = "add"
    /\ lettersPool' = assignLetters(names, season, method)
    /\ schedule' = buildPoolSchedule(size)
    /\ matchIdx' = 0
    /\ results' = EmptyObject
    /\ lettersBracket' = Null
    /\ games' = <<>>
    /\ UNCHANGED <<appVars, view, size, fnVars>>

startGuided(names, method) ==
    /\ view = "add"
    /\ IF Len(names) # size
       THEN UNCHANGED vars
       ELSE /\ lettersPool' = assignLetters(names, season, method)
            /\ schedule' = buildPoolSchedule(size)
            /\ matchIdx' = 0
            /\ results' = EmptyObject
            /\ lettersBracket' = Null
            /\ games' = <<>>
            /\ UNCHANGED <<appVars, view, size, fnVars>>

\* The record of one submitted score.
MatchRecord(entry, resolved, s1, s2) ==
    [team1 |-> resolved.team1, team2 |-> resolved.team2, s1 |-> s1, s2 |-> s2,
     winner |-> IF s1 > s2 THEN resolved.team1 ELSE resolved.team2,
     loser  |-> IF s1 > s2 THEN resolved.team2 ELSE resolved.team1,
     stage |-> entry.phase, label |-> entry.label]

\* Soft validation that goes on whatever the dialogs are answered
ProceedsUnasked(entry, s1, s2, okTarget, okMargin) == TRUE

\* Soft validation: TRUE when the submission goes on, okTarget and okMargin being
\* the answers to the two confirm dialogs.
Proceeds(entry, s1, s2, okTarget, okMargin) ==
    IF entry.phase # "pool"
    THEN /\ (Max(s1, s2) < 11 => okTarget)
         /\ (Abs(s1 - s2) < 2 => okMargin)
    ELSE (Max(s1, s2) < 11 => okTarget)

hasBracketAlready(sched) == \E i \in 1..Len(sched) : sched[i].phase # "pool"

allPoolsEntered(sched, justFinished, res) ==
    ~ \E idx \in 0..(Len(sched) - 1) :
          /\ sched[idx + 1].phase = "pool"
          /\ idx <= justFinished
          /\ ~ (idx = justFinished \/ idx \in DOMAIN res)

\* Object.values({...results, [matchIdx]: rec}).filter(x => x.stage === 'pool')
RECURSIVE PoolOnly(_)
PoolOnly(recs) ==
    IF recs = <<>> THEN <<>>
    ELSE (IF Head(recs).stage = "pool" THEN <<Head(recs)>> ELSE <<>>) \o PoolOnly(Tail(recs))

WithResult(res, idx, rec) == [k \in DOMAIN res \cup {idx} |-> IF k = idx THEN rec ELSE res[k]]

onSubmitScore(s1, s2, okTarget, okMargin) ==
    /\ view = "add"
    /\ matchIdx >= 0
    /\ matchIdx < Len(schedule)
    /\ LET currentMatch == schedule[matchIdx + 1]
       IN  /\ ~ ResolveThrows(currentMatch, lettersPool, lettersBracket)
           /\ IF ~ Proceeds(currentMatch, s1, s2, okTarget, okMargin)
              THEN UNCHANGED vars
              ELSE LET resolved == resolveTeamsForEntry(currentMatch, lettersPool,
                                                        lettersBracket, results)
                       rec == MatchRecord(currentMatch, resolved, s1, s2)
                       allResults == WithResult(results, matchIdx, rec)
                       lastIndex == Len(schedule) - 1
                   IN  IF matchIdx < lastIndex
                       THEN /\ results' = allResults
                            /\ games' = Append(games, rec)
                            /\ IF /\ ~ hasBracketAlready(schedule)
                                  /\ allPoolsEntered(schedule, matchIdx, results)
                               THEN /\ lettersBracket' =
                                          LettersOf(computePoolStandings(
                                              PoolOnly(ObjectValues(allResults))))
                                    /\ schedule' = schedule \o buildBracketSchedule(size)
                               ELSE UNCHANGED <<lettersBracket, schedule>>
                            /\ matchIdx' = matchIdx + 1
                            /\ UNCHANGED <<appVars, view, size, lettersPool, fnVars>>
                       ELSE /\ AppendEvent(size,
                                   computePlacements(size, allResults,
                                       IF lettersBracket # Null THEN lettersBracket
                                       ELSE lettersPool),
                                   Append(games, rec))
                            /\ matchIdx' = -1
                            /\ schedule' = <<>>
                            /\ results' = EmptyObject
                            /\ lettersPool' = Null
                            /\ lettersBracket' = Null
                            /\ games' = <<>>
                            /\ UNCHANGED <<view, size, fnVars>>

\* ManualPlacements: the "Add Event to Standings" button. The form is shown
\* in the 'add' view when the guided check box is cleared; the guided session
\* kept by AddEventForm is untouched.
manualSubmit(p, names, gs) ==
    /\ view = "add"
    /\ IF \E i \in 1..4 : p[i] = ""
       THEN UNCHANGED vars
       ELSE LET awards == POINTS_TABLE[size].awards
                others == Filter(names, Range(names) \ Range(p))
                base == (1 :> <<p[1], p[2]>>) @@ (2 :> <<p[3], p[4]>>)
                fifth == IF 5 \in DOMAIN awards /\ others # <<>>
                         THEN (5 :> <<others[1]>>) ELSE EmptyObject
                seventh == IF 7 \in DOMAIN awards /\ others # <<>>
                           THEN (7 :> <<others[Len(others)]>>) ELSE EmptyObject
            IN  /\ AppendEvent(size, base @@ fifth @@ seventh, gs)
                /\ UNCHANGED <<view, size, sessionVars, fnVars>>

\* importCSV reading the placements of every size off the first game
importCSVFirstGame(n, gs) ==
    /\ view = "data"
    /\ IF Len(gs) >= 1
       THEN LET f == gs[1]
                champs == IF f.s1 > f.s2 THEN f.team1 ELSE f.team2
                runners == IF f.s1 > f.s2 THEN f.team2 ELSE f.team1
            IN  /\ AppendEvent(n, (1 :> champs) @@ (2 :> runners), gs)
                /\ UNCHANGED <<view, size, sessionVars, fnVars>>
       ELSE UNCHANGED vars

\* DataPanel: Papa.parse's complete callback, on a file whose EVENT row
\* declares size n (0: no such row) and whose game rows are gs. Reading a game
\* of a list that is too short throws, and the catch leaves the ledger alone.
importCSV(n, gs) ==
    /\ view = "data"
    /\ IF n = 4 /\ Len(gs) >= 1
       THEN LET f == gs[Len(gs)]
                champs == IF f.s1 > f.s2 THEN f.team1 ELSE f.team2
                runners == IF f.s1 > f.s2 THEN f.team2 ELSE f.team1
            IN  /\ AppendEvent(4, (1 :> champs) @@ (2 :> runners), gs)
                /\ UNCHANGED <<view, size, sessionVars, fnVars>>
       ELSE IF n = 8 /\ Len(gs) >= 2
       THEN LET final == gs[Len(gs)]
                bronze == gs[Len(gs) - 1]
                champs == IF final.s1 > final.s2 THEN final.team1 ELSE final.team2
                runners == IF final.s1 > final.s2 THEN final.team2 ELSE final.team1
                third == IF bronze.s1 > bronze.s2 THEN bronze.team1 ELSE bronze.team2
                fourth == IF bronze.s1 > bronze.s2 THEN bronze.team2 ELSE bronze.team1
            IN  /\ AppendEvent(8, (1 :> champs) @@ (2 :> runners) @@ (3 :> third) @@ (4 :> fourth), gs)
                /\ UNCHANGED <<view, size, sessionVars, fnVars>>
       ELSE UNCHANGED vars

\* undoLast: the "Undo Last Event" button of the 'standings' and 'add' views;
\* ok is the answer to its confirm dialog.
undoLast(ok) ==
    /\ view \in {"standings", "add"}
    /\ IF events = <<>> \/ ~ ok
       THEN UNCHANGED vars
       ELSE /\ SetEvents(SubSeq(events, 1, Len(events) - 1))
            /\ UNCHANGED <<now, view, size, sessionVars, fnVars>>

\* HistoryView's Delete button of the event with the given id; ok is the
\* answer to its confirm dialog.
deleteEvent(id, ok) ==
    /\ view = "history"
    /\ \E i \in DOMAIN events : events[i].id = id
    /\ IF ~ ok
       THEN UNCHANGED vars
       ELSE /\ SetEvents(Filter(events, { e \in Range(events) : e.id # id }))
            /\ UNCHANGED <<now, view, size, sessionVars, fnVars>>

\* DataPanel: reader.onload of importEvents on the file f. JSON.parse and the
\* Array.isArray test throw into the catch; an array replaces the ledger as it
\* is, and the effect on [events] then recomputes and saves, or throws before
\* it has saved anything.
importEvents(f) ==
    /\ view = "data"
    /\ IF f.kind # "array"
       THEN UNCHANGED vars
       ELSE IF RecomputeThrows(f.value)
       THEN /\ events' = f.value
            /\ view' = Unmounted
            /\ UNCHANGED <<season, storedEvents, storedSeason, now, size, sessionVars, fnVars>>
       ELSE /\ SetEvents(f.value)
            /\ UNCHANGED <<now, view, size, sessionVars, fnVars>>

StartGuided ==
    /\ Room
    /\ \E names \in Rosters, method \in Methods : startGuided(names, method)

\* The answer to a dialog that is not shown is immaterial: it is taken as TRUE.
TargetAnswers(s1, s2) == IF Max(s1, s2) < 11 THEN BOOLEAN ELSE {TRUE}
MarginAnswers(s1, s2) ==
    IF /\ Abs(s1 - s2) < 2
       /\ matchIdx >= 0 /\ matchIdx < Len(schedule)
       /\ schedule[matchIdx + 1].phase # "pool"
    THEN BOOLEAN ELSE {TRUE}

SubmitScore ==
    /\ Room
    /\ \E sc \in ScoreChoices :
           /\ (sc # UsualScore) => (Unusual(games) < MaxUnusual)
           /\ \E okTarget \in TargetAnswers(sc[1], sc[2]),
                 okMargin \in MarginAnswers(sc[1], sc[2]) :
                  onSubmitScore(sc[1], sc[2], okTarget, okMargin)

ManualAdd ==
    /\ Room
    /\ \E p \in ManualFields, names \in ManualRosters, gs \in ManualGames :
           manualSubmit(p, names, gs)

ImportCSV ==
    /\ Room
    /\ \E n \in CsvSizes, gs \in CsvGames : importCSV(n, gs)

UndoLast == \E ok \in BOOLEAN : undoLast(ok)

DeleteEvent == \E i \in DOMAIN events, ok \in BOOLEAN : deleteEvent(events[i].id, ok)

ImportEvents == \E f \in JsonFiles : importEvents(f)

ChangeView == \E v \in Views : SetView(v)

ChangeSize ==
    /\ Room
    /\ \E n \in Sizes : SetSize(n)

Next ==
    \/ ChangeView
    \/ ChangeSize
    \/ StartGuided
    \/ SubmitScore
    \/ ManualAdd
    \/ ImportCSV
    \/ UndoLast
    \/ DeleteEvent
    \/ ImportEvents

Spec == Init /\ [][Next]_vars

-----------------------------------------------------------------------------
(* computePoolStandings on its own: the pool phase of a roster, played with  *)
(* scores drawn from PoolScoreChoices, is the argument; fnOut receives the   *)
(* ordered names.                                                            *)

PoolScoreChoices == { <<11, 7>>, <<7, 11>>, <<11, 9>>, <<9, 11>>, <<13, 11>> }

PoolRosters == { r \in Rosters : Len(r) <= MaxPoolRoster }

\* The records onSubmitScore stores for the pool entries of a roster seeded
\* on an empty season, the i-th entry ending on the score sc[i].
PlayPool(roster, sc) ==
    LET L == assignLetters(roster, EmptyObject, "standings")
        pool == buildPoolSchedule(Len(roster))
    IN  [i \in 1..Len(pool) |->
            MatchRecord(pool[i], resolveTeamsForEntry(pool[i], L, Null, EmptyObject),
                        sc[i][1], sc[i][2])]

InitPool ==
    /\ AppInit
    /\ \E r \in PoolRosters :
           \E sc \in [1..Len(buildPoolSchedule(Len(r))) -> PoolScoreChoices] :
               fnIn = [roster |-> r, poolGames |-> PlayPool(r, sc)]
    /\ fnOut = Null

\* const orderedNames = computePoolStandings(poolGames)
ApplyPoolStandings ==
    /\ fnOut = Null
    /\ fnOut' = [value |-> computePoolStandings(fnIn.poolGames)]
    /\ UNCHANGED <<appVars, view, size, sessionVars, fnIn>>

NextPool == ApplyPoolStandings

SpecPool == InitPool /\ [][NextPool]_vars

-----------------------------------------------------------------------------
(* computePlacements on its own: a size, bracket letters over the roster of  *)
(* that size, and the records of the size's bracket played to its end are    *)
(* the arguments; fnOut receives the placement map.                          *)

BracketScoreChoices == { <<15, 10>>, <<10, 15>>, <<9, 9>> }

\* Two bracket orders of a roster: its hash order and the order as typed.
BracketLetters(roster) == { LettersOf(shuffleDeterministic(roster)), LettersOf(roster) }

\* The records onSubmitScore stores for the bracket entries br, the i-th
\* ending on the score sc[i]; their keys follow the pool entries' keys.
RECURSIVE PlayBracket(_, _, _, _, _, _)
PlayBracket(br, L, sc, first, res, i) ==
    IF i > Len(br) THEN res
    ELSE LET rec == MatchRecord(br[i], resolveTeamsForEntry(br[i], Null, L, res),
                                sc[i][1], sc[i][2])
         IN  PlayBracket(br, L, sc, first, WithResult(res, first + i - 1, rec), i + 1)

InitPlace ==
    /\ AppInit
    /\ \E r \in Rosters :
           \E L \in BracketLetters(r) :
               \E sc \in [1..Len(buildBracketSchedule(Len(r))) -> BracketScoreChoices] :
                   fnIn = [size |-> Len(r), letters |-> L,
                           allResults |-> PlayBracket(buildBracketSchedule(Len(r)), L, sc,
                                                      Len(buildPoolSchedule(Len(r))),
                                                      EmptyObject, 1)]
    /\ fnOut = Null

\* const placements = computePlacements(size, {...}, lettersBracket || lettersPool)
ApplyPlacements ==
    /\ fnOut = Null
    /\ fnOut' = [value |-> computePlacements(fnIn.size, fnIn.allResults, fnIn.letters)]
    /\ UNCHANGED <<appVars, view, size, sessionVars, fnIn>>

NextPlace == ApplyPlacements

SpecPlace == InitPlace /\ [][NextPlace]_vars

-----------------------------------------------------------------------------
(* recomputeFromLedger on its own: a ledger of events drawn from             *)
(* ReduceEvents is the argument; fnOut receives the season.                  *)

\* Events of every tier and one of a size without award table (3). Between
\* them they have a rank without award (3 for size 4), a last-place award, a
\* blank name in a placement, a level game and a game won by team 2.
ReduceEvents ==
    { [id |-> 1, size |-> 4,
       placements |-> (1 :> <<"Al", "Bo">>) @@ (2 :> <<"Cy", "Di">>) @@ (3 :> <<"Ed", "Flo">>),
       gameStats |-> << CsvGame("Al", "Bo", "Cy", "Di", 11, 7) >>],
      [id |-> 2, size |-> 5,
       placements |-> (1 :> <<"Cy", "Al">>) @@ (2 :> <<"Bo", "Di">>) @@ (5 :> <<"Ed">>),
       gameStats |-> << CsvGame("Cy", "Al", "Bo", "Di", 9, 9) >>],
      [id |-> 3, size |-> 7,
       placements |-> (1 :> <<"Al", "">>) @@ (2 :> <<"Cy", "Di">>) @@ (3 :> <<"Ed", "Bo">>)
                          @@ (7 :> <<"Gus">>),
       gameStats |-> <<>>],
      [id |-> 4, size |-> 8,
       placements |-> (1 :> <<"Bo", "Al">>) @@ (2 :> <<"Cy", "Di">>) @@ (3 :> <<"Ed", "Flo">>)
                          @@ (4 :> <<"Gus", "Abe">>),
       gameStats |-> << CsvGame("Ed", "Flo", "Gus", "Abe", 15, 13),
                        CsvGame("Cy", "Di", "Bo", "Al", 7, 11) >>],
      [id |-> 5, size |-> 3,
       placements |-> (1 :> <<"Al", "Bo">>) @@ (2 :> <<"Cy", "Di">>),
       gameStats |-> << CsvGame("Al", "Bo", "Cy", "Di", 11, 7) >>] }

Ledgers == UNION { [1..n -> ReduceEvents] : n \in 0..MaxLedger }

InitReduce ==
    /\ AppInit
    /\ \E L \in Ledgers : fnIn = [ledger |-> L]
    /\ fnOut = Null

\* const recomputed = recomputeFromLedger(events)
ApplyReduce ==
    /\ fnOut = Null
    /\ fnOut' = [value |-> recomputeFromLedger(fnIn.ledger)]
    /\ UNCHANGED <<appVars, view, size, sessionVars, fnIn>>

NextReduce == ApplyReduce

SpecReduce == InitReduce /\ [][NextReduce]_vars

-----------------------------------------------------------------------------
(* rankPlayers on its own: rows in the key order of a season object, with    *)
(* totals drawn from RankTotals, are the argument; fnOut receives the ranked *)
(* rows.                                                                     *)

Totals(points, wins, losses, pf, pa) ==
    [emptyTotals EXCEPT !.Points = points, !.Wins = wins, !.Losses = losses,
                        !.PF = pf, !.PA = pa]

\* Totals that differ at one level of the comparator each: Points; Wins; PF;
\* the quotient (PF - PA) / (Wins + Losses), with 1 and 4/4 equal, 2 above
\* them, and 1/3 and 33/100 apart by less than a hundredth; no games at all.
RankTotals ==
    { Totals(250, 0, 0, 0, 0),
      Totals(100, 2, 0, 20, 18),
      Totals(100, 1, 1, 22, 20),
      Totals(100, 1, 1, 20, 18),
      Totals(100, 1, 1, 20, 16),
      Totals(100, 1, 3, 20, 16),
      Totals(100, 1, 2, 50, 49),
      Totals(100, 1, 99, 50, 17) }

\* Object.keys(season): the names in the order their entries were created;
\* two orders of the first MaxRows names.
RankKeys ==
    { SubSeq(TypedNames, 1, MaxRows),
      [i \in 1..MaxRows |-> TypedNames[(i % MaxRows) + 1]] }

InitRank ==
    /\ AppInit
    /\ \E k \in RankKeys : \E t \in [1..MaxRows -> RankTotals] :
           fnIn = [rows |-> [i \in 1..MaxRows |-> [Player |-> k[i]] @@ t[i]]]
    /\ fnOut = Null

\* const ranked = rankPlayers(list)
ApplyRank ==
    /\ fnOut = Null
    /\ fnOut' = [value |-> rankPlayers(fnIn.rows)]
    /\ UNCHANGED <<appVars, view, size, sessionVars, fnIn>>

NextRank == ApplyRank

SpecRank == InitRank /\ [][NextRank]_vars

-----------------------------------------------------------------------------
(* Properties *)

poolLen(n) == Len(buildPoolSchedule(n))
bracketLen(n) == Len(buildBracketSchedule(n))
FullLen(n) == poolLen(n) + bracketLen(n)

\* The roster a running session was started with, and its size.
SessionRoster == { lettersPool[ch] : ch \in DOMAIN lettersPool }
StartSize == Cardinality(DOMAIN lettersPool)

\* A step in which a submitted score is recorded.
SubmitStep ==
    /\ matchIdx >= 0
    /\ \/ matchIdx' = matchIdx + 1
       \/ matchIdx' = -1 /\ view' = view

\* A step that appends an Event to the ledger.
Appends == Len(events') = Len(events) + 1

\* A step that creates the bracket letters.
Reseeds == lettersBracket = Null /\ lettersBracket' # Null

\* The schedule of the session is the one of its start size.
OwnSchedule ==
    \/ schedule = buildPoolSchedule(StartSize)
    \/ schedule = buildPoolSchedule(StartSize) \o buildBracketSchedule(StartSize)

\* C1: reseeding happens exactly on the step that records the score of the
\* last pool entry of the session's size, never on an earlier pool entry, and
\* the bracket letters it creates are the pool standings over the records of
\* every pool entry.
C1_ReseedAtLastPool ==
    [][ /\ Reseeds <=> (SubmitStep /\ matchIdx = poolLen(StartSize) - 1)
        /\ Reseeds => /\ Len(games') = poolLen(StartSize)
                      /\ lettersBracket' = LettersOf(computePoolStandings(games')) ]_vars

\* C2: once a session has bracket letters, they map exactly the first
\* StartSize letters one-to-one onto the roster of the session.
C2_BracketBijection ==
    (lettersPool # Null /\ lettersBracket # Null) =>
        /\ DOMAIN lettersBracket = { alpha[i] : i \in 1..StartSize }
        /\ { lettersBracket[ch] : ch \in DOMAIN lettersBracket } = SessionRoster
        /\ \A c, d \in DOMAIN lettersBracket :
               lettersBracket[c] = lettersBracket[d] => c = d

\* C3: a step that records a score appends an Event exactly when the score
\* is the one of the last entry of the full schedule of the session's size
\* (its pool entries followed by its bracket entries), it appends one Event
\* only, and the session is idle right after it.
C3_OneEventAtEnd ==
    [][ SubmitStep =>
          /\ Appends <=> (Len(games) + 1 = FullLen(StartSize))
          /\ Len(events') \in { Len(events), Len(events) + 1 }
          /\ Appends => IdleSession' ]_vars

\* C4: the Event a guided session emits carries one record per schedule
\* entry in the order played: as many records as the pool and the bracket of
\* the Event's size have entries, the records logged so far followed by the
\* record of the last entry, each under the label of its entry.
C4_OneRecordPerEntry ==
    [][ (SubmitStep /\ Appends) =>
          LET ev == events'[Len(events')]
              gs == ev.gameStats
          IN  /\ Len(gs) = FullLen(ev.size)
              /\ Len(gs) = Len(games) + 1
              /\ SubSeq(gs, 1, Len(games)) = games
              /\ \A i \in 1..Len(gs) : gs[i].label = schedule[i].label ]_vars

\* A record with two teams of two roster names, the four names distinct.
WellFormedRecord(g) ==
    /\ Len(g.team1) = 2
    /\ Len(g.team2) = 2
    /\ Range(g.team1) \cup Range(g.team2) \subseteq SessionRoster
    /\ Cardinality(Range(g.team1) \cup Range(g.team2)) = 4

\* C5: every record logged by a session that runs the schedule of its own
\* size has two teams of exactly two roster names, the four names pairwise
\* distinct, none of them undefined or the placeholder '(TBD)'.
C5_TeamsOfRoster ==
    (lettersPool # Null /\ OwnSchedule) =>
        \A i \in DOMAIN games : WellFormedRecord(games[i])

\* The record of the bracket entry with the given label, among the arguments
\* of computePlacements.
Played(label) ==
    CHOOSE r \in { fnIn.allResults[k] : k \in DOMAIN fnIn.allResults } : r.label = label

\* C6: on the completed bracket results of a size and the bracket letters,
\* computePlacements returns exactly 1: Final winner and 2: Final loser, with
\* in addition 5: the player at letter 'E' for size 5, 3: the SF loser for
\* size 6, 3: the SF loser and 7: the player at letter 'G' for size 7, and
\* 3: Bronze winner and 4: Bronze loser for size 8.
C6_PlacementsBySize ==
    fnOut # Null =>
        LET top == (1 :> Played("Final").winner) @@ (2 :> Played("Final").loser)
        IN  fnOut.value =
                CASE fnIn.size = 4 -> top
                  [] fnIn.size = 5 -> top @@ (5 :> <<fnIn.letters["E"]>>)
                  [] fnIn.size = 6 -> top @@ (3 :> Played("SF").loser)
                  [] fnIn.size = 7 -> top @@ (3 :> Played("SF").loser)
                                          @@ (7 :> <<fnIn.letters["G"]>>)
                  [] fnIn.size = 8 -> top @@ (3 :> Played("Bronze").winner)
                                          @@ (4 :> Played("Bronze").loser)

\* computePlacements has run on a completed 7-player bracket and placed the
\* player at letter 'G' seventh.
C6_Witness ==
    /\ fnOut # Null
    /\ fnIn.size = 7
    /\ 7 \in DOMAIN fnOut.value
    /\ fnOut.value[7] = <<fnIn.letters["G"]>>

\* C7: the Event of a completed 5-player guided session lists at rank 5
\* exactly the player at bracket letter 'E', lists that player at no other
\* rank, and folding it adds exactly 50 Points to that player.
C7_FifthPlace ==
    [][ (SubmitStep /\ Appends /\ size = 5 /\ StartSize = 5
            /\ schedule = buildPoolSchedule(5) \o buildBracketSchedule(5)) =>
          LET ev == events'[Len(events')]
              e == Lookup(lettersBracket, "E")
              before == IF e \in DOMAIN season THEN season[e].Points ELSE 0
          IN  /\ 5 \in DOMAIN ev.placements
              /\ ev.placements[5] = <<e>>
              /\ \A k \in DOMAIN ev.placements \ {5} : e \notin Range(ev.placements[k])
              /\ e \in DOMAIN season'
              /\ season'[e].Points = before + 50 ]_vars

\* C8: the placement map of every Event of the ledger (appended by the
\* guided engine, the manual form or the CSV import) has only ranks that carry
\* an award for the Event's size, each with a non-empty list.
C8_AwardedRanksOnly ==
    \A i \in DOMAIN events :
        HasPlacements(events[i]) =>
        /\ DOMAIN events[i].placements \subseteq DOMAIN POINTS_TABLE[events[i].size].awards
        /\ \A k \in DOMAIN events[i].placements : Len(events[i].placements[k]) > 0

\* A guided 4-player session has emitted its Event, whose placement map has
\* the ranks 1 and 2 only: the ranks 3, 4, 5 and 7 were dropped.
C8_Witness ==
    /\ Len(events) = 1
    /\ HasPlacements(events[1])
    /\ events[1].size = 4
    /\ Len(events[1].gameStats) = 4
    /\ events[1].gameStats[4].label = "Final"
    /\ DOMAIN events[1].placements = {1, 2}

\* Pool tallies of a player over the games gs, counted from the records.
RECURSIVE SumOver(_, _)
SumOver(f, S) ==
    IF S = {} THEN 0
    ELSE LET x == CHOOSE y \in S : TRUE IN f[x] + SumOver(f, S \ {x})

PoolPlayers(gs) == UNION { Range(gs[i].team1) \cup Range(gs[i].team2) : i \in DOMAIN gs }

WinsOf(p, gs) ==
    Cardinality({ i \in DOMAIN gs : \/ p \in Range(gs[i].team1) /\ gs[i].s1 > gs[i].s2
                                    \/ p \in Range(gs[i].team2) /\ gs[i].s2 > gs[i].s1 })

PFOf(p, gs) ==
    SumOver([i \in DOMAIN gs |-> IF p \in Range(gs[i].team1) THEN gs[i].s1
                                 ELSE IF p \in Range(gs[i].team2) THEN gs[i].s2 ELSE 0],
            DOMAIN gs)

PAOf(p, gs) ==
    SumOver([i \in DOMAIN gs |-> IF p \in Range(gs[i].team1) THEN gs[i].s2
                                 ELSE IF p \in Range(gs[i].team2) THEN gs[i].s1 ELSE 0],
            DOMAIN gs)

\* a and b are level on Wins, Diff and PF
Tied(a, b, gs) ==
    /\ WinsOf(a, gs) = WinsOf(b, gs)
    /\ PFOf(a, gs) - PAOf(a, gs) = PFOf(b, gs) - PAOf(b, gs)
    /\ PFOf(a, gs) = PFOf(b, gs)

TiedBlock(a, gs) == { p \in PoolPlayers(gs) : Tied(a, p, gs) }

\* the number of games in which a, on the other team, beat b
BeatCount(a, b, gs) ==
    Cardinality({ i \in DOMAIN gs :
        \/ a \in Range(gs[i].team1) /\ b \in Range(gs[i].team2) /\ gs[i].s1 > gs[i].s2
        \/ a \in Range(gs[i].team2) /\ b \in Range(gs[i].team1) /\ gs[i].s2 > gs[i].s1 })

PositionOf(p, order) == CHOOSE i \in DOMAIN order : order[i] = p

\* C9: when exactly two players are level on Wins, Diff and PF and one beat
\* the other more often than the reverse in the pool games where they were
\* opponents, the standings rank that one above the other.
C9_HeadToHeadFirst ==
    fnOut # Null =>
        LET gs == fnIn.poolGames
        IN  \A a, b \in PoolPlayers(gs) :
                (TiedBlock(a, gs) = {a, b} /\ a # b
                    /\ BeatCount(a, b, gs) > BeatCount(b, a, gs))
                => PositionOf(a, fnOut.value) < PositionOf(b, fnOut.value)

\* C10: players level on Wins, Diff and PF whom head-to-head does not
\* separate (two players with no meeting or an even split, or a block of more
\* than two) are ranked by ascending hash of their names.
C10_HashOrderFallback ==
    fnOut # Null =>
        LET gs == fnIn.poolGames
        IN  \A a, b \in PoolPlayers(gs) :
                (a # b /\ Tied(a, b, gs)
                    /\ (Cardinality(TiedBlock(a, gs)) > 2
                           \/ BeatCount(a, b, gs) = BeatCount(b, a, gs))
                    /\ hashStr(a) < hashStr(b))
                => PositionOf(a, fnOut.value) < PositionOf(b, fnOut.value)

-----------------------------------------------------------------------------
(* Properties of the season reducer *)

\* The award table and the tiers as the specification states them.
StatedAwards ==
    (4 :> ((1 :> 250) @@ (2 :> 100))) @@
    (5 :> ((1 :> 300) @@ (2 :> 100) @@ (5 :> 50))) @@
    (6 :> ((1 :> 600) @@ (2 :> 300) @@ (3 :> 100))) @@
    (7 :> ((1 :> 700) @@ (2 :> 400) @@ (3 :> 100) @@ (7 :> 50))) @@
    (8 :> ((1 :> 1000) @@ (2 :> 600) @@ (3 :> 250) @@ (4 :> 100)))

StatedTier == (4 :> "Challenger") @@ (5 :> "Challenger") @@ (6 :> "Signature")
                  @@ (7 :> "Signature") @@ (8 :> "Slam")

\* The events of a ledger whose size has an award table.
Supported(L) == { i \in DOMAIN L : L[i].size \in DOMAIN StatedAwards }

\* The listings of player p in the placement maps of the supported events of
\* L: <<event, rank, position>>.
PlaceListings(L, p) ==
    { t \in Supported(L) \X (1..8) \X (1..2) :
        /\ t[2] \in DOMAIN L[t[1]].placements
        /\ t[3] \in DOMAIN L[t[1]].placements[t[2]]
        /\ L[t[1]].placements[t[2]][t[3]] = p }

PointsDue(L, p) ==
    LET T == PlaceListings(L, p)
        award(t) == LET a == StatedAwards[L[t[1]].size]
                    IN  IF t[2] \in DOMAIN a THEN a[t[2]] ELSE 0
    IN  SumOver([t \in T |-> award(t)], T)

TitlesDue(L, p, tier) ==
    Cardinality({ t \in PlaceListings(L, p) : t[2] = 1 /\ StatedTier[L[t[1]].size] = tier })

\* The totals of a player in a season; a player without entry has none.
TotalsOf(seasonMap, p) == IF p \in DOMAIN seasonMap THEN seasonMap[p] ELSE emptyTotals

\* C11: in the season recomputeFromLedger returns, every player's Points are
\* the sum of the stated awards over the player's listings in the placement
\* maps of the events of supported size (a rank without award adds nothing),
\* and each title counter is the number of the player's rank-1 listings in
\* the events of its tier.
C11_PlacementPart ==
    fnOut # Null =>
        \A p \in Names :
            LET row == TotalsOf(fnOut.value, p)
                L == fnIn.ledger
            IN  /\ row.Points = PointsDue(L, p)
                /\ row.ChallengerWins = TitlesDue(L, p, "Challenger")
                /\ row.SignatureWins = TitlesDue(L, p, "Signature")
                /\ row.SlamWins = TitlesDue(L, p, "Slam")

\* A ledger with a 4-player, a 7-player and an 8-player event has been
\* reduced: Al, first in all three (once next to a blank name), has
\* 250 + 700 + 1000 Points and one title of each tier, and Ed, third in the
\* 4-player event (no award) and in the 7-player event, has 100 + 250.
C11_Witness ==
    /\ fnOut # Null
    /\ { fnIn.ledger[i].size : i \in DOMAIN fnIn.ledger } = {4, 7, 8}
    /\ Len(fnIn.ledger) = 3
    /\ fnOut.value["Al"].Points = 1950
    /\ fnOut.value["Al"].ChallengerWins = 1
    /\ fnOut.value["Al"].SignatureWins = 1
    /\ fnOut.value["Al"].SlamWins = 1
    /\ fnOut.value["Ed"].Points = 350

\* The listings of player p in the teams of the games of the supported events
\* of L: <<event, game, side, position>>.
GameListings(L, p) ==
    { t \in Supported(L) \X (1..2) \X (1..2) \X (1..2) :
        /\ t[2] \in DOMAIN L[t[1]].gameStats
        /\ LET g == L[t[1]].gameStats[t[2]]
               team == IF t[3] = 1 THEN g.team1 ELSE g.team2
           IN  t[4] \in DOMAIN team /\ team[t[4]] = p }

\* The score of the listed player's own team, and of the other team.
OwnScore(L, t) ==
    LET g == L[t[1]].gameStats[t[2]] IN IF t[3] = 1 THEN g.s1 ELSE g.s2
OtherScore(L, t) ==
    LET g == L[t[1]].gameStats[t[2]] IN IF t[3] = 1 THEN g.s2 ELSE g.s1

\* C12: in the season recomputeFromLedger returns, every player's PF and PA
\* are the sums of the own and of the opposing team's scores over the player's
\* listings in the games of the events of supported size, Wins counts the
\* listings on the strictly higher-scoring team and Losses those on the
\* strictly lower-scoring team; a level game counts in neither.
C12_GamePart ==
    fnOut # Null =>
        \A p \in Names :
            LET row == TotalsOf(fnOut.value, p)
                L == fnIn.ledger
                T == GameListings(L, p)
            IN  /\ row.PF = SumOver([t \in T |-> OwnScore(L, t)], T)
                /\ row.PA = SumOver([t \in T |-> OtherScore(L, t)], T)
                /\ row.Wins = Cardinality({ t \in T : OwnScore(L, t) > OtherScore(L, t) })
                /\ row.Losses = Cardinality({ t \in T : OwnScore(L, t) < OtherScore(L, t) })

\* A ledger of the 5-player event (one level game, 9-9) and the 8-player
\* event (Cy and Di lose 7-11 to Bo and Al) has been reduced: Cy has PF 16,
\* PA 20, no win and one loss, Bo has PF 20, PA 16, one win and no loss.
C12_Witness ==
    /\ fnOut # Null
    /\ Len(fnIn.ledger) = 2
    /\ { fnIn.ledger[i].size : i \in DOMAIN fnIn.ledger } = {5, 8}
    /\ fnOut.value["Cy"].PF = 16 /\ fnOut.value["Cy"].PA = 20
    /\ fnOut.value["Cy"].Wins = 0 /\ fnOut.value["Cy"].Losses = 1
    /\ fnOut.value["Bo"].PF = 20 /\ fnOut.value["Bo"].PA = 16
    /\ fnOut.value["Bo"].Wins = 1 /\ fnOut.value["Bo"].Losses = 0

\* The ledger L without its i-th event.
Without(L, i) == SubSeq(L, 1, i - 1) \o SubSeq(L, i + 1, Len(L))

\* C13: an event whose size has no award table contributes nothing, wherever
\* it stands in the ledger: the season of the ledger equals the season of the
\* ledger without that event, for every player and every field, and has the
\* same player entries.
C13_UnsupportedSizeSkipped ==
    fnOut # Null =>
        \A i \in DOMAIN fnIn.ledger :
            fnIn.ledger[i].size \notin DOMAIN StatedAwards =>
                /\ fnOut.value = recomputeFromLedger(Without(fnIn.ledger, i))
                /\ DOMAIN fnOut.value = DOMAIN recomputeFromLedger(Without(fnIn.ledger, i))

\* A ledger with the size-3 event between the 4-player and the 8-player
\* event has been reduced: Al has the Points and the two wins of the two
\* other events only.
C13_Witness ==
    /\ fnOut # Null
    /\ Len(fnIn.ledger) = 3
    /\ fnIn.ledger[1].size = 4
    /\ fnIn.ledger[2].size = 3
    /\ fnIn.ledger[3].size = 8
    /\ fnOut.value["Al"].Points = 1250
    /\ fnOut.value["Al"].Wins = 2

\* The events of L applied one at a time, in order, to the empty season: the
\* season of the ledger so far (t), then the next event.
RECURSIVE Replay(_)
Replay(L) ==
    IF L = <<>> THEN EmptyObject
    ELSE CHOOSE r \in { applyEventToSeason(t, L[Len(L)]) :
                           t \in { Replay(SubSeq(L, 1, Len(L) - 1)) } } : TRUE

-----------------------------------------------------------------------------
(* Properties of the ledger *)

\* C15: in every state between two handlers, the season held by App and the
\* persisted season are recomputeFromLedger of the current ledger, and the
\* persisted ledger reads back as the current ledger.
C15_AggregatesFollowLedger ==
    /\ ~ RecomputeThrows(events)
    /\ season = recomputeFromLedger(events)
    /\ storedSeason = recomputeFromLedger(events)
    /\ storedEvents = events

\* An entry with the properties of an Event, and a file that is not the text
\* of a list of such entries.
WellFormedEvent(ev) == {"id", "size", "placements", "gameStats"} \subseteq DOMAIN ev
Malformed(f) ==
    \/ f.kind # "array"
    \/ \E i \in DOMAIN f.value : ~ WellFormedEvent(f.value[i])

\* C16: the import of a malformed file (text that does not parse, a value
\* that is not a list, a list with an entry that is not a well-formed Event)
\* leaves the ledger, the season and the persisted ledger as they were.
C16_MalformedImportRejected ==
    [][ (\E f \in JsonFiles : Malformed(f) /\ importEvents(f)) =>
            UNCHANGED <<events, season, storedEvents>> ]_vars

-----------------------------------------------------------------------------
(* Properties of the guided session *)

\* A step that starts a session: it changes the session and leaves it at
\* match 0 with pool letters.
StartStep ==
    /\ sessionVars' # sessionVars
    /\ matchIdx' = 0
    /\ lettersPool' # Null

\* C17: "Start Guided Matchday" with a roster whose length differs from the
\* selected size changes nothing (pool letters, bracket letters, schedule,
\* match index, results, logged games and ledger keep their values), so that
\* every step that starts a session gives it as many pool letters as the
\* selected size.
C17_RosterMismatchRejected ==
    [][ /\ (\E names \in Rosters, method \in Methods :
                Len(names) # size /\ startGuided(names, method))
            => UNCHANGED <<sessionVars, events, storedEvents, season>>
        /\ StartStep => (Cardinality(DOMAIN lettersPool') = size /\ size' = size) ]_vars

\* A session started on a roster of five with size 5 is under way and the
\* size selector now shows 4: "Start Guided Matchday" on the same roster is
\* rejected, and the session is still the one that was started.
C17_Witness ==
    /\ view = "add"
    /\ Room
    /\ size = 4
    /\ lettersPool # Null
    /\ StartSize = 5
    /\ matchIdx = 2
    /\ Len(games) = 2

\* A step of a trigger of the guided session that takes effect: it changes
\* the session (start, restart, recorded score), the size selector, or the
\* view shown by the tabs.
TriggerStep ==
    \/ sessionVars' # sessionVars
    \/ size' # size
    \/ view' # view /\ view' \in Views

\* C18: starting or restarting a session, changing the size, switching the
\* view and submitting the score of any entry but the last of the schedule
\* leave the ledger, the persisted ledger and the season alone; the one
\* trigger that changes them is the submission of the last entry, and the one
\* Event it appends has a record for every entry of the schedule: the logged
\* games followed by the record of the last entry.
C18_LedgerUntouchedBeforeEnd ==
    [][ (TriggerStep /\ ~ UNCHANGED <<events, storedEvents, season>>)
           => /\ SubmitStep
              /\ matchIdx = Len(schedule) - 1
              /\ Len(events') = Len(events) + 1
              /\ SubSeq(events', 1, Len(events)) = events
              /\ Len(events'[Len(events')].gameStats) = Len(schedule)
              /\ SubSeq(events'[Len(events')].gameStats, 1, Len(games)) = games ]_vars

\* A session has reached its bracket (three pool scores are recorded and the
\* bracket letters exist) and the ledger is still empty.
C18_Witness ==
    /\ view = "add"
    /\ lettersPool # Null
    /\ lettersBracket # Null
    /\ matchIdx = 3
    /\ Len(games) = 3
    /\ events = <<>>
    /\ storedEvents = <<>>

\* The record a SubmitStep stores: the last of the logged games, or the last
\* game of the Event the step appends.
RecordedNow ==
    IF matchIdx' = -1 THEN LET gs == events'[Len(events')].gameStats IN gs[Len(gs)]
    ELSE games'[Len(games')]

\* The advisory targets as stated: pool to 11, bracket to 15 and win by 2.
BelowTarget(entry, s1, s2) == Max(s1, s2) < (IF entry.phase = "pool" THEN 11 ELSE 15)
BelowMargin(entry, s1, s2) == entry.phase # "pool" /\ Abs(s1 - s2) < 2

\* C19: a score below the target of its phase (15 for a bracket entry, direct
\* or derived, 11 for a pool entry) is recorded only when the user confirms
\* the target dialog, and a bracket score with a margin under 2 only when the
\* user confirms the margin dialog: no recording step is one onSubmitScore
\* takes on a refused or unasked confirmation of such a score.
C19_OverrideNeedsConfirmation ==
    [][ SubmitStep =>
          LET entry == schedule[matchIdx + 1]
              rec == RecordedNow
          IN  \A okTarget, okMargin \in BOOLEAN :
                  onSubmitScore(rec.s1, rec.s2, okTarget, okMargin) =>
                      /\ BelowTarget(entry, rec.s1, rec.s2) => okTarget
                      /\ BelowMargin(entry, rec.s1, rec.s2) => okMargin ]_vars

-----------------------------------------------------------------------------
(* Properties of the season ranking *)

\* AvgDiff of a row, (PF - PA) / (Wins + Losses) or 0 without games, as the
\* fraction <<numerator, denominator>> with a positive denominator.
AvgDiffOf(r) ==
    IF r.Wins + r.Losses = 0 THEN <<0, 1>> ELSE <<r.PF - r.PA, r.Wins + r.Losses>>

\* The cascade as stated: a ranks strictly above b.
CascadeAbove(a, b) ==
    LET x == AvgDiffOf(a)
        y == AvgDiffOf(b)
    IN  \/ a.Points > b.Points
        \/ a.Points = b.Points /\ a.Wins > b.Wins
        \/ a.Points = b.Points /\ a.Wins = b.Wins /\ a.PF > b.PF
        \/ a.Points = b.Points /\ a.Wins = b.Wins /\ a.PF = b.PF
              /\ x[1] * y[2] > y[1] * x[2]
        \/ a.Points = b.Points /\ a.Wins = b.Wins /\ a.PF = b.PF
              /\ x[1] * y[2] = y[1] * x[2]
              /\ LocaleBefore(a.Player, b.Player)

\* A ranked row without its Rank.
Unranked(r) == [f \in DOMAIN r \ {"Rank"} |-> r[f]]

\* C20: rankPlayers returns the input rows, each once, in the order of the
\* cascade (Points, Wins, PF and the exact AvgDiff descending, then the name
\* ascending), with the Ranks 1..n in that order.
C20_RankingCascade ==
    fnOut # Null =>
        LET out == fnOut.value
            n == Len(fnIn.rows)
        IN  /\ Len(out) = n
            /\ \E perm \in [1..n -> 1..n] :
                   /\ \A i, j \in 1..n : perm[i] = perm[j] => i = j
                   /\ \A i \in 1..n : Unranked(out[i]) = fnIn.rows[perm[i]]
            /\ \A i \in 1..n : out[i].Rank = i
            /\ \A i, j \in 1..n : i < j => CascadeAbove(out[i], out[j])

\* Three rows level on Points, Wins and PF have been ranked. Al and Bo have
\* AvgDiff 1/3 and Abe 33/100, which rounds to the same 0.33: Al is first
\* and Bo second, by name, and Abe third although Abe's name comes first.
C20_Witness ==
    /\ fnOut # Null
    /\ fnOut.value[1].Player = "Al" /\ fnOut.value[1].PA = 49 /\ fnOut.value[1].Rank = 1
    /\ fnOut.value[2].Player = "Bo" /\ fnOut.value[2].PA = 49 /\ fnOut.value[2].Rank = 2
    /\ fnOut.value[3].Player = "Abe" /\ fnOut.value[3].PA = 17 /\ fnOut.value[3].Rank = 3

-----------------------------------------------------------------------------
(* The ledger over several appends: the three appending handlers, undo and
   delete, with a ledger of up to MaxHistory Events.  The guided session is
   the four-player one with the usual score in every match. *)

LedgerRoom == Len(events) < MaxHistory /\ now < MaxHistory

LedgerStart ==
    /\ LedgerRoom
    /\ startGuided(SubSeq(TypedNames, 1, 4), "standings")

LedgerSubmit ==
    /\ LedgerRoom
    /\ onSubmitScore(UsualScore[1], UsualScore[2], TRUE, TRUE)

LedgerManual ==
    /\ LedgerRoom
    /\ \E gs \in ManualGames : manualSubmit(<<"Al", "Bo", "Cy", "Abe">>, <<>>, gs)

LedgerCsv ==
    /\ LedgerRoom
    /\ \E n \in CsvSizes, gs \in CsvGames : importCSV(n, gs)

NextLedger ==
    \/ ChangeView
    \/ LedgerStart
    \/ LedgerSubmit
    \/ LedgerManual
    \/ LedgerCsv
    \/ UndoLast
    \/ DeleteEvent

SpecLedger == Init /\ [][NextLedger]_vars

\* C21: after any sequence of appends (guided matchday, manual placement, CSV
\* import) the ids of the ledger are strictly increasing in insertion order,
\* hence pairwise distinct, and a confirmed delete of one id removes exactly
\* one Event.
C21_IdsDistinctIncreasing ==
    [][ /\ \A i, j \in DOMAIN events' : i < j => events'[i].id < events'[j].id
        /\ \A i \in DOMAIN events :
              (view = "history" /\ events' = Filter(events, { e \in Range(events) :
                                                                e.id # events[i].id }))
                  => Len(events') = Len(events) - 1 ]_vars

\* The team with the higher score of a decided game, and the other team.
GameWinner(g) == CHOOSE t \in {g.team1, g.team2} : (t = g.team1) <=> (g.s1 > g.s2)
GameLoser(g) == CHOOSE t \in {g.team1, g.team2} : (t = g.team1) <=> (g.s2 > g.s1)

\* The step appends one Event of size n with the games gs and the ranks pl.
AppendsCsv(n, gs, pl) ==
    /\ Len(events') = Len(events) + 1
    /\ SubSeq(events', 1, Len(events)) = events
    /\ events'[Len(events')].size = n
    /\ events'[Len(events')].gameStats = gs
    /\ events'[Len(events')].placements = pl

\* C22: the CSV import appends an Event only for a declared size of 4 or 8:
\* size 4 ranks the winner and the loser of the last game 1 and 2; size 8 does
\* the same and ranks the winner and the loser of the second-to-last game 3
\* and 4; any other declared size, and a file with too few games, leaves the
\* ledger unchanged.
C22_CsvImport ==
    [][ view = "data" =>
          \A n \in CsvSizes, gs \in CsvGames :
             importCSV(n, gs) =>
                IF n = 4 /\ Len(gs) >= 1
                THEN AppendsCsv(4, gs, (1 :> GameWinner(gs[Len(gs)]))
                                       @@ (2 :> GameLoser(gs[Len(gs)])))
                ELSE IF n = 8 /\ Len(gs) >= 2
                THEN AppendsCsv(8, gs, (1 :> GameWinner(gs[Len(gs)]))
                                       @@ (2 :> GameLoser(gs[Len(gs)]))
                                       @@ (3 :> GameWinner(gs[Len(gs) - 1]))
                                       @@ (4 :> GameLoser(gs[Len(gs) - 1])))
                ELSE events' = events /\ storedEvents' = storedEvents ]_vars

\* A ledger holds an Event imported from a size-8 file of two games: the Final
\* was won by its second team, the Bronze by its first.
C22_Witness ==
    \E i \in DOMAIN events :
       /\ events[i].size = 8
       /\ Len(events[i].gameStats) = 2
       /\ events[i].gameStats[1].stage = ""
       /\ events[i].placements[1] = events[i].gameStats[2].team2
       /\ events[i].placements[3] = events[i].gameStats[1].team1

\* The current match of the session is a derived bracket entry.
DerivedCurrent ==
    /\ matchIdx >= 0
    /\ matchIdx < Len(schedule)
    /\ schedule[matchIdx + 1].phase = "bracket-derivative"

\* The sides of an entry that name the result of another match.
Referring(entry) ==
    { from \in {entry.from1, entry.from2} : from.type \in {"winnerOf", "loserOf"} }

\* C23: while the current match is a derived bracket entry, every label it
\* references belongs to an earlier entry of the schedule whose result is
\* recorded in the session, and resolving the entry yields no "(TBD)" side.
C23_DerivedEntryResolved ==
    DerivedCurrent =>
        /\ \A from \in Referring(schedule[matchIdx + 1]) :
              \E k \in DOMAIN results :
                 /\ k < matchIdx
                 /\ schedule[k + 1].label = from.label
                 /\ results[k].label = from.label
        /\ resolveTeamsForEntry(schedule[matchIdx + 1], lettersPool,
                                lettersBracket, results).team1 # TBD
        /\ resolveTeamsForEntry(schedule[matchIdx + 1], lettersPool,
                                lettersBracket, results).team2 # TBD

\* The Final of an eight-player bracket is the current match, after the
\* Bronze, itself derived from SF1 and SF2, was resolved and recorded.
C23_Witness ==
    /\ DerivedCurrent
    /\ schedule[matchIdx + 1].label = "Final"
    /\ Referring(schedule[matchIdx + 1]) = {winnerOf("SF1"), winnerOf("SF2")}
    /\ games # <<>>
    /\ games[Len(games)].label = "Bronze"
    /\ games[Len(games)].stage = "bracket-derivative"
    /\ games[Len(games)].team1 # TBD

-----------------------------------------------------------------------------
(* Properties of the pool standings *)

LossesOf(p, gs) ==
    Cardinality({ i \in DOMAIN gs : \/ p \in Range(gs[i].team1) /\ gs[i].s2 > gs[i].s1
                                    \/ p \in Range(gs[i].team2) /\ gs[i].s1 > gs[i].s2 })

DiffOf(p, gs) == PFOf(p, gs) - PAOf(p, gs)

\* a stands before b: more Wins, then the higher Diff, then the higher PF,
\* then the earlier name.
StandsBefore(a, b, gs) ==
    \/ WinsOf(a, gs) > WinsOf(b, gs)
    \/ /\ WinsOf(a, gs) = WinsOf(b, gs)
       /\ \/ DiffOf(a, gs) > DiffOf(b, gs)
          \/ /\ DiffOf(a, gs) = DiffOf(b, gs)
             /\ \/ PFOf(a, gs) > PFOf(b, gs)
                \/ /\ PFOf(a, gs) = PFOf(b, gs)
                   /\ LocaleBefore(a, b)

\* C24: on the pool-phase records, computePoolStandings tallies Wins, Losses,
\* PF and PA of each player, lists every player of the records exactly once,
\* and orders them by Wins descending, then Diff descending, then PF
\* descending, then name ascending.
C24_PoolStandingsOrder ==
    fnOut # Null =>
        LET gs == PoolOnly(fnIn.poolGames)
            out == fnOut.value
            rows == PoolRows(gs)
        IN  /\ gs = fnIn.poolGames
            /\ Range(out) = PoolPlayers(gs)
            /\ Len(out) = Cardinality(PoolPlayers(gs))
            /\ \A i \in DOMAIN rows :
                  /\ rows[i].W = WinsOf(rows[i].Player, gs)
                  /\ rows[i].L = LossesOf(rows[i].Player, gs)
                  /\ rows[i].PF = PFOf(rows[i].Player, gs)
                  /\ rows[i].PA = PAOf(rows[i].Player, gs)
            /\ \A i, j \in DOMAIN out : i < j => StandsBefore(out[i], out[j], gs)

\* Standings in which two neighbours are level on Wins and Diff and the one
\* with the higher PF stands first, although its name is the later one.
C24_Witness ==
    /\ fnOut # Null
    /\ \E i \in 1..(Len(fnOut.value) - 1) :
          LET a == fnOut.value[i]
              b == fnOut.value[i + 1]
          IN  /\ WinsOf(a, fnIn.poolGames) = WinsOf(b, fnIn.poolGames)
              /\ DiffOf(a, fnIn.poolGames) = DiffOf(b, fnIn.poolGames)
              /\ PFOf(a, fnIn.poolGames) > PFOf(b, fnIn.poolGames)
              /\ LocaleBefore(b, a)

-----------------------------------------------------------------------------
(* Properties of the advisory dialogs *)

\* A dialog shown for the score is answered with "Cancel": the dialog on the
\* target for a score whose higher value is below 11, or else, for a bracket
\* entry, the dialog on the margin for a score whose margin is below 2.
Declined(entry, s1, s2, okTarget, okMargin) ==
    \/ Max(s1, s2) < 11 /\ ~ okTarget
    \/ entry.phase # "pool" /\ Abs(s1 - s2) < 2 /\ ~ okMargin

\* C25: a submission on which the user declines a dialog has no effect
\* (results, logged games, match index, schedule, pool and bracket letters and
\* ledger unchanged, the same entry still current); a submission on which no
\* dialog is declined is recorded with the scores as entered, whatever they
\* are.
C25_DeclineHasNoEffect ==
    [][ (view = "add" /\ matchIdx >= 0 /\ matchIdx < Len(schedule)) =>
          \A sc \in ScoreChoices, okTarget, okMargin \in BOOLEAN :
             onSubmitScore(sc[1], sc[2], okTarget, okMargin) =>
                IF Declined(schedule[matchIdx + 1], sc[1], sc[2], okTarget, okMargin)
                THEN UNCHANGED <<results, games, matchIdx, schedule, lettersPool,
                                 lettersBracket, events, storedEvents, season>>
                ELSE /\ SubmitStep
                     /\ RecordedNow.s1 = sc[1]
                     /\ RecordedNow.s2 = sc[2]
                     /\ RecordedNow.stage = schedule[matchIdx + 1].phase
                     /\ RecordedNow.label = schedule[matchIdx + 1].label ]_vars

\* A bracket score of 9-9, below the target and without a margin, is logged:
\* both dialogs were shown and confirmed.
C25_Witness ==
    \E i \in DOMAIN games :
       /\ games[i].stage # "pool"
       /\ games[i].s1 = 9
       /\ games[i].s2 = 9

-----------------------------------------------------------------------------
(* hashStr and shuffleDeterministic on their own: the argument is a name or  *)
(* a list of distinct names as typed; fnOut receives the value returned.     *)

HashNames == {"Al", "Bo", "Cy", "Aa", "BB"}

RECURSIVE ListsOf(_, _)
ListsOf(S, n) ==
    IF n = 0 THEN { <<>> }
    ELSE { <<x>> \o l : x \in S, l \in ListsOf(S, n - 1) }

Distinct(l) == Cardinality(Range(l)) = Len(l)

TypedLists ==
    { l \in UNION { ListsOf(HashNames, n) : n \in 1..MaxTyped } : Distinct(l) }

InitHash ==
    /\ AppInit
    /\ \/ \E n \in DOMAIN NameCodes : fnIn = [s |-> n]
       \/ \E l \in TypedLists : fnIn = [arr |-> l]
    /\ fnOut = Null

ApplyHash ==
    /\ fnOut = Null
    /\ "s" \in DOMAIN fnIn
    /\ fnOut' = [value |-> hashStr(fnIn.s)]
    /\ UNCHANGED <<appVars, view, size, sessionVars, fnIn>>

ApplyShuffle ==
    /\ fnOut = Null
    /\ "arr" \in DOMAIN fnIn
    /\ fnOut' = [value |-> shuffleDeterministic(fnIn.arr)]
    /\ UNCHANGED <<appVars, view, size, sessionVars, fnIn>>

NextHash == ApplyHash \/ ApplyShuffle

SpecHash == InitHash /\ [][NextHash]_vars

\* C26: shuffleDeterministic does not depend on the order of its input: every
\* list of the same distinct names is sorted to the same list, in ascending
\* order of hash.
C26_OrderIndependent ==
    (fnOut # Null /\ "arr" \in DOMAIN fnIn) =>
        \A l \in TypedLists :
           Range(l) = Range(fnIn.arr) => shuffleDeterministic(l) = fnOut.value

-----------------------------------------------------------------------------
(* Properties of the hash *)

MaxInt32 == 2147483647
MinInt32 == -MaxInt32 - 1

\* a + b wrapped to 32 bits, for a and b of 32 bits
AddWrap(a, b) ==
    IF b > 0 /\ a > MaxInt32 - b THEN (a - MaxInt32 - 1) + (b - MaxInt32 - 1)
    ELSE IF b < 0 /\ a < MinInt32 - b THEN (a + MaxInt32 + 1) + (b + MaxInt32 + 1)
    ELSE a + b

\* k * h wrapped to 32 bits, as k wrapped additions
RECURSIVE TimesWrap(_, _)
TimesWrap(k, h) == IF k = 0 THEN 0 ELSE AddWrap(TimesWrap(k - 1, h), h)

\* the fold h := wrap32(h * 31 + code) over the first i code units
RECURSIVE Fold31(_, _)
Fold31(codes, i) ==
    IF i = 0 THEN 0
    ELSE CHOOSE r \in { AddWrap(TimesWrap(31, h), codes[i]) : h \in { Fold31(codes, i - 1) } } : TRUE

\* C27: hashStr(s) is the left-to-right fold h := wrap32(h * 31 + code) from
\* 0, a 32-bit signed value; hashStr("Al") = 2123 and hashStr("Bo") = 2157.
C27_HashIsFold31 ==
    (fnOut # Null /\ "s" \in DOMAIN fnIn) =>
        /\ fnOut.value = Fold31(NameCodes[fnIn.s], Len(NameCodes[fnIn.s]))
        /\ fnOut.value >= MinInt32
        /\ fnOut.value <= MaxInt32
        /\ (fnIn.s = "Al" => fnOut.value = 2123)
        /\ (fnIn.s = "Bo" => fnOut.value = 2157)

\* The hash of a name of nine code units, on which the fold wraps around, is
\* returned, and it is negative.
C27_Witness ==
    /\ fnOut # Null
    /\ "s" \in DOMAIN fnIn
    /\ fnIn.s = "undefined"
    /\ fnOut.value < 0

-----------------------------------------------------------------------------
(* assignLetters on its own: the arguments are a roster as typed, the season *)
(* of a ledger and the method; fnOut receives the letter map.                *)

Seasons == { recomputeFromLedger(L) : L \in Ledgers }

InitSeed ==
    /\ AppInit
    /\ \E r \in Rosters, se \in Seasons, m \in Methods :
           fnIn = [roster |-> r, season |-> se, method |-> m]
    /\ fnOut = Null

\* const L = assignLetters(names, season, method)
ApplySeed ==
    /\ fnOut = Null
    /\ fnOut' = [value |-> assignLetters(fnIn.roster, fnIn.season, fnIn.method)]
    /\ UNCHANGED <<appVars, view, size, sessionVars, fnIn>>

NextSeed == ApplySeed

SpecSeed == InitSeed /\ [][NextSeed]_vars

-----------------------------------------------------------------------------
(* Properties of the seeding *)

Known == { n \in Range(fnIn.roster) : n \in DOMAIN fnIn.season }
Unknown == Range(fnIn.roster) \ Known

\* The position in the alphabet of the letter a player received.
LetterIndex(n) == CHOOSE i \in 1..Len(alpha) : alpha[i] \in DOMAIN fnOut.value
                                                /\ fnOut.value[alpha[i]] = n

SeasonRow(n) == [Player |-> n] @@ fnIn.season[n]

\* C28: the letter map gives the first letters of the alphabet to the players
\* of the roster, each once; every player with season aggregates has an
\* earlier letter than every player without; the players with aggregates are
\* lettered in the order of the ranking cascade, best first, and the others
\* in ascending order of hash.
C28_SeedOrder ==
    fnOut # Null =>
        /\ DOMAIN fnOut.value = { alpha[i] : i \in 1..Len(fnIn.roster) }
        /\ { fnOut.value[ch] : ch \in DOMAIN fnOut.value } = Range(fnIn.roster)
        /\ \A k \in Known, u \in Unknown : LetterIndex(k) < LetterIndex(u)
        /\ \A a, b \in Known :
              LetterIndex(a) < LetterIndex(b) => CascadeAbove(SeasonRow(a), SeasonRow(b))
        /\ \A a, b \in Unknown :
              LetterIndex(a) < LetterIndex(b) => hashStr(a) <= hashStr(b)

\* A roster typed with a lower-ranked known player before a higher-ranked one
\* and with an unknown player of higher hash before one of lower hash has
\* been lettered.
C28_Witness ==
    /\ fnOut # Null
    /\ \E i, j \in DOMAIN fnIn.roster :
          /\ i < j
          /\ {fnIn.roster[i], fnIn.roster[j]} \subseteq Known
          /\ CascadeAbove(SeasonRow(fnIn.roster[j]), SeasonRow(fnIn.roster[i]))
    /\ \E i, j \in DOMAIN fnIn.roster :
          /\ i < j
          /\ {fnIn.roster[i], fnIn.roster[j]} \subseteq Unknown
          /\ hashStr(fnIn.roster[j]) < hashStr(fnIn.roster[i])

\* C29: the method has no effect: the letter map computed with 'random' is
\* the one computed with 'standings'.
C29_MethodHasNoEffect ==
    fnOut # Null =>
        /\ fnOut.value = assignLetters(fnIn.roster, fnIn.season, "random")
        /\ fnOut.value = assignLetters(fnIn.roster, fnIn.season, "standings")

\* A roster with two unknown players typed against their hash order has been
\* lettered with the method 'random'.
C29_Witness ==
    /\ fnOut # Null
    /\ fnIn.method = "random"
    /\ \E i, j \in DOMAIN fnIn.roster :
          /\ i < j
          /\ {fnIn.roster[i], fnIn.roster[j]} \subseteq Unknown
          /\ hashStr(fnIn.roster[j]) < hashStr(fnIn.roster[i])
          /\ LetterIndex(fnIn.roster[j]) < LetterIndex(fnIn.roster[i])

-----------------------------------------------------------------------------
(* Properties of the pool schedule *)

\* The letters of the first or of the second team of the pool entries.
PoolSide1(sched) ==
    UNION { Range(sched[i].pair1) : i \in { k \in DOMAIN sched : sched[k].phase = "pool" } }
PoolSide2(sched) ==
    UNION { Range(sched[i].pair2) : i \in { k \in DOMAIN sched : sched[k].phase = "pool" } }

\* C30: in the pool schedule of a session, every letter of the session (the
\* first `size` letters) is in the first team of some pool entry and in the
\* second team of some pool entry.
C30_EveryLetterOnBothSides ==
    (lettersPool # Null /\ schedule # <<>>) =>
        \A ch \in DOMAIN lettersPool :
           ch \in PoolSide1(schedule) /\ ch \in PoolSide2(schedule)

-----------------------------------------------------------------------------
(* resolveTeamsForEntry on its own: the arguments are an entry of the        *)
(* schedule of a size, the pool letters of a roster of that size, bracket    *)
(* letters over the same roster and the records of the size's bracket;       *)
(* fnOut receives the two teams.                                             *)

ResolveScoreChoices == { <<15, 10>>, <<10, 15>> }

Reverse(l) == [i \in 1..Len(l) |-> l[Len(l) + 1 - i]]

\* Two bracket orders of a roster: the order as typed and its reverse.
ResolveLetters(roster) == { LettersOf(roster), LettersOf(Reverse(roster)) }

InitResolve ==
    /\ AppInit
    /\ \E r \in Rosters, sc \in ResolveScoreChoices :
          \E Lbr \in ResolveLetters(r) :
             \E i \in 1..FullLen(Len(r)) :
                LET br == buildBracketSchedule(Len(r))
                IN  fnIn = [entry |-> (buildPoolSchedule(Len(r)) \o br)[i],
                            Lpool |-> assignLetters(r, EmptyObject, "standings"),
                            Lbr |-> Lbr,
                            results |-> PlayBracket(br, Lbr, [k \in 1..Len(br) |-> sc],
                                                    poolLen(Len(r)), EmptyObject, 1)]
    /\ fnOut = Null

\* const resolved = resolveTeamsForEntry(currentMatch, lettersPool, lettersBracket, results)
ApplyResolve ==
    /\ fnOut = Null
    /\ fnOut' = [value |-> resolveTeamsForEntry(fnIn.entry, fnIn.Lpool, fnIn.Lbr,
                                                fnIn.results)]
    /\ UNCHANGED <<appVars, view, size, sessionVars, fnIn>>

NextResolve == ApplyResolve

SpecResolve == InitResolve /\ [][NextResolve]_vars

\* The names a letter map gives to a list of letters.
NamesVia(L, letters) == [i \in 1..Len(letters) |-> L[letters[i]]]

\* C31: a pool entry is resolved through the pool letters, bracket letters
\* existing or not; a bracket entry, and the fixed-letter side of a derived
\* entry, through the bracket letters.
C31_LettersOfThePhase ==
    fnOut # Null =>
        LET e == fnIn.entry
        IN  /\ e.phase = "pool" =>
                 /\ fnOut.value.team1 = NamesVia(fnIn.Lpool, e.pair1)
                 /\ fnOut.value.team2 = NamesVia(fnIn.Lpool, e.pair2)
            /\ e.phase = "bracket" =>
                 /\ fnOut.value.team1 = NamesVia(fnIn.Lbr, e.pair1)
                 /\ fnOut.value.team2 = NamesVia(fnIn.Lbr, e.pair2)
            /\ e.phase = "bracket-derivative" =>
                 /\ e.from1.type = "fixedLetters" =>
                       fnOut.value.team1 = NamesVia(fnIn.Lbr, e.from1.letters)
                 /\ e.from2.type = "fixedLetters" =>
                       fnOut.value.team2 = NamesVia(fnIn.Lbr, e.from2.letters)

\* The Final of a six-player bracket is resolved: its fixed-letter side AB is
\* read off the bracket letters, which differ there from the pool letters.
C31_Witness ==
    /\ fnOut # Null
    /\ fnIn.entry.phase = "bracket-derivative"
    /\ fnIn.entry.from1.type = "fixedLetters"
    /\ Cardinality(DOMAIN fnIn.Lpool) = 6
    /\ fnOut.value.team1 = NamesVia(fnIn.Lbr, fnIn.entry.from1.letters)
    /\ fnOut.value.team1 # NamesVia(fnIn.Lpool, fnIn.entry.from1.letters)

-----------------------------------------------------------------------------
(* Properties of the pool letters *)

\* L maps exactly the first n letters one-to-one onto the names of a roster
\* of n names.
LetterBijection(L, n) ==
    /\ DOMAIN L = { alpha[i] : i \in 1..n }
    /\ \A c, d \in DOMAIN L : L[c] = L[d] => c = d
    /\ \E names \in Rosters : Len(names) = n /\ { L[c] : c \in DOMAIN L } = Range(names)

\* C32: a step that starts a session gives it pool letters that map exactly
\* the first `size` letters one-to-one onto the roster, and no later step of
\* the session changes them, the creation of the bracket letters included:
\* they stay as they are until another session is started or the session
\* ends, with its last submission or with the 'add' view being left.
C32_PoolLettersFixed ==
    [][ /\ StartStep => LetterBijection(lettersPool', size)
        /\ (lettersPool # Null /\ lettersPool' # Null /\ ~ StartStep)
              => lettersPool' = lettersPool
        /\ (lettersPool # Null /\ lettersPool' = Null)
              => \/ SubmitStep /\ matchIdx = Len(schedule) - 1
                 \/ view' # view ]_vars

\* A session has been reseeded: its bracket letters exist and differ from the
\* pool letters, which still map the first `size` letters onto the roster.
C32_Witness ==
    /\ lettersPool # Null
    /\ lettersBracket # Null
    /\ lettersBracket # lettersPool
    /\ matchIdx > 0
    /\ LetterBijection(lettersPool, size)

-----------------------------------------------------------------------------
(* Properties of the recorded results *)

\* The score of the team a record names as its winner, and of the other team.
WinnerScore(r) == IF r.winner = r.team1 THEN r.s1 ELSE r.s2
LoserScore(r) == IF r.winner = r.team1 THEN r.s2 ELSE r.s1

\* C33: in every result recorded by the session the winner's score is
\* strictly greater than the loser's: equal scores designate no winner.
C33_WinnerScoredMore ==
    \A k \in DOMAIN results :
       /\ WinnerScore(results[k]) > LoserScore(results[k])
       /\ results[k].winner # results[k].loser

-----------------------------------------------------------------------------
(* Properties of the size of a session *)

\* C34: the bracket appended to the schedule of a session is the one of the
\* size the session was started with, and the Event the session emits has
\* that size and the placements of that size's rule, whatever the size
\* selector shows by then.
C34_EventOfStartSize ==
    [][ /\ Reseeds => schedule' = schedule \o buildBracketSchedule(StartSize)
        /\ (SubmitStep /\ Appends) =>
              /\ events'[Len(events')].size = StartSize
              /\ events'[Len(events')].placements =
                    computePlacements(StartSize,
                                      WithResult(results, matchIdx, RecordedNow),
                                      IF lettersBracket # Null THEN lettersBracket
                                      ELSE lettersPool) ]_vars

-----------------------------------------------------------------------------
(* Conservation in the season aggregates *)

\* The games of the ledger that the reducer reads: those of the Events of a
\* supported size, as pairs <<event index, game index>>.
CountedGames ==
    { <<i, k>> \in (DOMAIN events) \X (1..20) :
         /\ events[i].size \in DOMAIN POINTS_TABLE
         /\ k \in DOMAIN events[i].gameStats }

GameAt(ik) == events[ik[1]].gameStats[ik[2]]

\* The decided games in which p took part.
DecidedGamesOf(p) ==
    { ik \in CountedGames :
         /\ GameAt(ik).s1 # GameAt(ik).s2
         /\ p \in Range(GameAt(ik).team1) \cup Range(GameAt(ik).team2) }

\* Every Event has its placements and games, each game two players a team.
TwoATeam ==
    \A i \in DOMAIN events :
       /\ HasPlacements(events[i])
       /\ "gameStats" \in DOMAIN events[i]
       /\ \A k \in DOMAIN events[i].gameStats :
             /\ Len(events[i].gameStats[k].team1) = 2
             /\ Len(events[i].gameStats[k].team2) = 2

\* C35: for a ledger whose games have two players a team, over the players of
\* the season the Wins add up to the Losses and the PF to the PA, and the
\* Wins and Losses of each player add up to the number of decided games of
\* Events of a supported size in which the player took part.
C35_Conservation ==
    (view # Unmounted /\ TwoATeam) =>
        /\ SumOver([p \in DOMAIN season |-> season[p].Wins], DOMAIN season)
              = SumOver([p \in DOMAIN season |-> season[p].Losses], DOMAIN season)
        /\ SumOver([p \in DOMAIN season |-> season[p].PF], DOMAIN season)
              = SumOver([p \in DOMAIN season |-> season[p].PA], DOMAIN season)
        /\ \A p \in DOMAIN season :
              season[p].Wins + season[p].Losses = Cardinality(DecidedGamesOf(p))

-----------------------------------------------------------------------------
(* Order of the ledger *)

\* The ledgers that hold the events of L, each once, in any order.
Reorderings(L) ==
    { [i \in 1..Len(L) |-> L[perm[i]]] :
         perm \in { f \in [1..Len(L) -> 1..Len(L)] :
                       \A i, j \in 1..Len(L) : f[i] = f[j] => i = j } }

\* C36: the season does not depend on the order of the ledger: every
\* reordering of the events gives every player the same totals, and so does
\* deleting an event and appending it again at the end.
C36_OrderOfLedgerImmaterial ==
    fnOut # Null =>
        /\ \A M \in Reorderings(fnIn.ledger) : recomputeFromLedger(M) = fnOut.value
        /\ \A i \in DOMAIN fnIn.ledger :
              recomputeFromLedger(Append(Without(fnIn.ledger, i), fnIn.ledger[i]))
                  = fnOut.value

\* A ledger of three different events of supported sizes has been reduced:
\* it has six orders, and Al holds points from more than one of its events.
C36_Witness ==
    /\ fnOut # Null
    /\ Len(fnIn.ledger) = 3
    /\ Cardinality(Reorderings(fnIn.ledger)) = 6
    /\ \A i \in 1..3 : fnIn.ledger[i].size \in DOMAIN POINTS_TABLE
    /\ "Al" \in DOMAIN fnOut.value
    /\ fnOut.value["Al"].Points > 1000

\* The pool entries of a schedule, and those in which a letter plays.
PoolEntries(sched) == { k \in DOMAIN sched : sched[k].phase = "pool" }
PoolGamesOf(ch, sched) ==
    { k \in PoolEntries(sched) : ch \in Range(sched[k].pair1) \cup Range(sched[k].pair2) }

\* C37: in the pool schedule of a session every letter of the session plays
\* the same number of pool games, 3 for the sizes 4 and 8 and 4 for the sizes
\* 5, 6 and 7, and every pool entry pairs four different letters of the
\* session.
C37_PoolBalanced ==
    (lettersPool # Null /\ schedule # <<>>) =>
        /\ \A ch \in DOMAIN lettersPool :
              Cardinality(PoolGamesOf(ch, schedule)) = (IF StartSize \in {4, 8} THEN 3 ELSE 4)
        /\ \A k \in PoolEntries(schedule) :
              /\ Len(schedule[k].pair1) = 2
              /\ Len(schedule[k].pair2) = 2
              /\ Cardinality(Range(schedule[k].pair1) \cup Range(schedule[k].pair2)) = 4
              /\ Range(schedule[k].pair1) \cup Range(schedule[k].pair2)
                    \subseteq DOMAIN lettersPool

\* Sessions of seven players are running: each of the letters A to G plays
\* four of the seven pool entries.
C37_Witness ==
    /\ lettersPool # Null
    /\ StartSize = 7
    /\ Cardinality(PoolEntries(schedule)) = 7
    /\ \A ch \in DOMAIN lettersPool : Cardinality(PoolGamesOf(ch, schedule)) = 4

=============================================================================
